---- MODULE Spec2Model ----
(***************************************************************************)
(* A model of the dev-mcps core: the command executor (internal/command:   *)
(* Executor.RunAsync and its watcher goroutine, GetStatus, CancelCommand,  *)
(* Executor.RunSync, and the command tool handlers that call them) and the *)
(* MCP dispatch loop (pkg/mcp: Server.Run, handleRequest, handleToolsCall, *)
(* send).                                                                  *)
(*                                                                         *)
(* The fields of an AsyncCommand are plain Go fields that the watcher      *)
(* goroutine and the dispatch goroutine access without a lock, so every    *)
(* field read and every field write is an action of its own and the two    *)
(* goroutines interleave between any two of them.                          *)
(*                                                                         *)
(* Specifications: SpecAsync (the executor's asynchronous operations, as   *)
(* called one after the other by the dispatch goroutine), SpecCancel (its  *)
(* cancel and watcher steps alone), SpecSync (one RunSync call),           *)
(* SpecRunCommand (one handleRunCommand call, from its parameters to the   *)
(* RunSync it makes), SpecRun (the dispatch loop over arbitrary frames),   *)
(* SpecRegistry (RegisterTool and tools/list), SpecServe (the dispatch     *)
(* loop with the command tools, the tasks running beside it), SpecParams   *)
(* (the parameter accessors and the command validator, one call each) and  *)
(* SpecEnv (the session environment tools of internal/environment).        *)
(***************************************************************************)
EXTENDS Integers, Sequences, FiniteSets, TLC

\* ---------------------------------------------------------------- bounds
MaxTasks == 1
MaxCalls == 3
MaxTime == 2
MaxOut == 1
MaxFrames == 3
MaxTimeout == 3
MaxSyncOut == 3
\* CommandConfig, scaled down
DefaultTimeoutSeconds == 2
MaxOutputSizeBytes == 2
MaxEnvCalls == 3

\* ------------------------------------------------------------- constants
IDs == 1..MaxTasks
\* a command id that uuid.New() never hands out
UnknownId == 0
Streams == {"Stdout", "Stderr"}
\* exit statuses a process can end with of its own accord
NaturalExits == {0, 1}
\* (*exec.ExitError).ExitCode() of a process ended by a signal
SignalExit == -1
Terminal == {"completed", "failed", "cancelled"}
\* the zero time.Time (EndTime of a record that was never given one)
ZeroTime == 0
NoSnap == [status |-> "", exit_code |-> 0, stdout |-> 0, stderr |-> 0,
           dur_key |-> "", dur_val |-> 0]
NoObs == [running |-> FALSE, terminal |-> FALSE, codeSet |-> FALSE]

VARIABLES
    asyncCommands,  \* Executor.asyncCommands: id -> AsyncCommand record
    proc,           \* the OS process of each id: "none" | "running" | "exited"
    procExit,       \* exit status of an exited process
    ctxDone,        \* the per-task context (AsyncCommand.Cancel was called)
    wpc,            \* position of each task's watcher goroutine
    werr,           \* the watcher's local err, as returned by cmd.Wait()
    now,            \* the wall clock
    cpc,            \* position of the dispatch goroutine inside a handler
    cid,            \* command id the running handler was called with
    snap,           \* the result map handleGetCommandStatus is building
    obs,            \* history: what held when the running handler read the record
    results,        \* history: the handler calls that have returned, in order
    uuids           \* ids uuid.New() has handed out

avars == <<asyncCommands, proc, procExit, ctxDone, wpc, werr, now, cpc, cid,
           snap, obs, results, uuids>>

VARIABLES
    tools,          \* Server.tools: tool name -> Tool
    input,          \* the frames the scanner has read from Server.input, in order
    output,         \* the lines written to Server.output, in order
    rpc,            \* position of Server.Run
    runCtxDone,     \* the context handed to Run is cancelled
    runErr,         \* the error Run returned
    outFrame,       \* history: for each output line, the index of its frame
    invoked         \* history: the handlers called, as <<frame index, tool name>>

dvars == <<tools, input, output, rpc, runCtxDone, runErr, outFrame, invoked>>

VARIABLES
    spc,            \* position of the goroutine inside Executor.RunSync
    timeoutSeconds, \* RunSync's timeoutSeconds, once the default is applied
    elapsed,        \* seconds since context.WithTimeout
    sctx,           \* ctx.Err() of RunSync's context
    sproc,          \* the subprocess of cmd.Run: "none" | "running" | "exited"
    sexit,          \* its exit status
    captured,       \* the bytes.Buffers stdout and stderr of RunSync
    orphan,         \* a descendant of the subprocess holds the output pipes open
    runerr,         \* err, as returned by cmd.Run()
    syncResult,     \* the *CommandResult RunSync returned
    killedOn        \* history: ctx.Err() when exec killed the subprocess

svars == <<spc, timeoutSeconds, elapsed, sctx, sproc, sexit, captured, orphan,
           runerr, syncResult, killedOn>>

VARIABLES
    hcall,          \* the executor call of the tool handler Run is inside
    hparams,        \* the run_command call handleRunCommand was given
    pcall           \* the last call of a parameter accessor, with its return

hvars == <<hcall, hparams, pcall>>

VARIABLES
    sessionEnv,     \* environment.Server.sessionEnv: variable name -> value
    elog            \* the environment tool calls made, with what they returned

evars == <<sessionEnv, elog>>

xvars == <<svars, hvars, evars>>

vars == <<avars, dvars, xvars>>

\* ------------------------------------------------------------ the record
Stored == DOMAIN asyncCommands

Field(id, f) == asyncCommands[id][f]

SetField(id, f, v) == [asyncCommands EXCEPT ![id][f] = v]

\* the cancel and status calls that have returned
Calls == Cardinality({i \in DOMAIN results : results[i].op # "spawn"})

\* the ids a caller can pass: one it was given by RunAsync (stored or not),
\* or one that names no command
CallIds == uuids \cup {UnknownId}

\* time.Time.IsZero
IsZero(t) == t = ZeroTime

\* the watcher has passed its writes of ExitCode (history, derived from wpc)
ExitCodeWritten(id) == wpc[id] \in {"w_status", "done"}

InitExecutor ==
    /\ asyncCommands = <<>>
    /\ proc = [i \in IDs |-> "none"]
    /\ procExit = [i \in IDs |-> 0]
    /\ ctxDone = [i \in IDs |-> FALSE]
    /\ wpc = [i \in IDs |-> "none"]
    /\ werr = [i \in IDs |-> "nil"]
    /\ now = 1
    /\ cpc = "idle"
    /\ cid = 0
    /\ snap = NoSnap
    /\ obs = NoObs
    /\ results = <<>>
    /\ uuids = {}

\* ------------------------------------------------------------- the clock
Tick ==
    /\ now < MaxTime
    /\ now' = now + 1
    /\ UNCHANGED <<asyncCommands, proc, procExit, ctxDone, wpc, werr, cpc,
                   cid, snap, obs, results, uuids,
                   dvars, xvars>>

\* ------------------------------------------------------ Executor.RunAsync
\* The dispatch goroutine runs RunAsync from handleRunCommandAsync. Until the
\* Store and the go statement nothing of the new record is shared, so the call
\* is one step. uuid.New() yields an id it has not handed out before.
\* NewAsyncCommand with Status left at its zero value
NewAsyncCommand_NoStatus(id) ==
    [ID |-> id, StartTime |-> now, EndTime |-> ZeroTime, Status |-> "",
     ExitCode |-> 0, Stdout |-> 0, Stderr |-> 0]

NewAsyncCommand(id) ==
    [ID |-> id, StartTime |-> now, EndTime |-> ZeroTime, Status |-> "running",
     ExitCode |-> 0, Stdout |-> 0, Stderr |-> 0]

\* RunAsync storing the record before cmd.Start() and leaving it on failure
RunAsync_StoreBeforeStart(id) ==
    /\ cpc = "idle"
    /\ id \notin uuids
    /\ uuids' = uuids \cup {id}
    /\ asyncCommands' = [i \in Stored \cup {id} |->
                           IF i = id THEN NewAsyncCommand(id)
                           ELSE asyncCommands[i]]
    /\ \/ /\ proc' = [proc EXCEPT ![id] = "running"]
          /\ wpc' = [wpc EXCEPT ![id] = "wait"]
          /\ results' = Append(results,
                 [op |-> "spawn", id |-> id, ret |-> TRUE, status |-> "running"])
          /\ UNCHANGED ctxDone
       \/ /\ ctxDone' = [ctxDone EXCEPT ![id] = TRUE]
          /\ results' = Append(results,
                 [op |-> "spawn", id |-> id, ret |-> FALSE, status |-> ""])
          /\ UNCHANGED <<proc, wpc>>
    /\ UNCHANGED <<procExit, werr, now, cpc, cid, snap, obs, dvars, xvars>>

RunAsync(id) ==
    /\ cpc = "idle"
    /\ id \notin uuids
    /\ uuids' = uuids \cup {id}
    /\ \/ \* cmd.Start() succeeds: Store the record, start the watcher
          /\ asyncCommands' = [i \in Stored \cup {id} |->
                                 IF i = id THEN NewAsyncCommand(id)
                                 ELSE asyncCommands[i]]
          /\ proc' = [proc EXCEPT ![id] = "running"]
          /\ wpc' = [wpc EXCEPT ![id] = "wait"]
          /\ results' = Append(results,
                 [op |-> "spawn", id |-> id, ret |-> TRUE, status |-> "running"])
          /\ UNCHANGED ctxDone
       \/ \* cmd.Start() fails: cancel(), return the error, nothing is stored
          /\ ctxDone' = [ctxDone EXCEPT ![id] = TRUE]
          /\ results' = Append(results,
                 [op |-> "spawn", id |-> id, ret |-> FALSE, status |-> ""])
          /\ UNCHANGED <<asyncCommands, proc, wpc>>
    /\ UNCHANGED <<procExit, werr, now, cpc, cid, snap, obs, dvars, xvars>>

\* ------------------------------------------------------- the OS process
ProcWrite(id, s) ==
    /\ proc[id] = "running"
    /\ Field(id, s) < MaxOut
    /\ asyncCommands' = SetField(id, s, Field(id, s) + 1)
    /\ UNCHANGED <<proc, procExit, ctxDone, wpc, werr, now, cpc, cid, snap,
                   obs, results, uuids,
                   dvars, xvars>>

ProcExit(id, code) ==
    /\ proc[id] = "running"
    /\ proc' = [proc EXCEPT ![id] = "exited"]
    /\ procExit' = [procExit EXCEPT ![id] = code]
    /\ UNCHANGED <<asyncCommands, ctxDone, wpc, werr, now, cpc, cid, snap,
                   obs, results, uuids,
                   dvars, xvars>>

\* exec.CommandContext kills the process once its context is done
ProcKill(id) ==
    /\ proc[id] = "running"
    /\ ctxDone[id]
    /\ proc' = [proc EXCEPT ![id] = "exited"]
    /\ procExit' = [procExit EXCEPT ![id] = SignalExit]
    /\ UNCHANGED <<asyncCommands, ctxDone, wpc, werr, now, cpc, cid, snap,
                   obs, results, uuids,
                   dvars, xvars>>

\* ------------------------------------------- the watcher goroutine of id
\* What cmd.Wait() can return for an exited process: nil for exit status 0,
\* an *exec.ExitError for any other status, and the context's error when the
\* context was done and the process still ended with status 0.
\* WaitErrs for a task context derived from the context handed to Run
WaitErrs_RunCtx(id) ==
    IF procExit[id] # 0 THEN {"exit"}
    ELSE IF ctxDone[id] \/ runCtxDone THEN {"nil", "other"}
    ELSE {"nil"}

WaitErrs(id) ==
    IF procExit[id] # 0 THEN {"exit"}
    ELSE IF ctxDone[id] THEN {"nil", "other"}
    ELSE {"nil"}

WaitReturn(id) ==
    /\ wpc[id] = "wait"
    /\ proc[id] = "exited"
    /\ \E e \in WaitErrs(id) : werr' = [werr EXCEPT ![id] = e]
    /\ wpc' = [wpc EXCEPT ![id] = "w_end"]
    /\ UNCHANGED <<asyncCommands, proc, procExit, ctxDone, now, cpc, cid,
                   snap, obs, results, uuids,
                   dvars, xvars>>

WriteEndTime(id) ==
    /\ wpc[id] = "w_end"
    /\ asyncCommands' = SetField(id, "EndTime", now)
    /\ wpc' = [wpc EXCEPT ![id] = "w_code"]
    /\ UNCHANGED <<proc, procExit, ctxDone, werr, now, cpc, cid, snap, obs,
                   results, uuids,
                   dvars, xvars>>

\* WatcherExitCode writing -1 for every error of cmd.Wait()
WatcherExitCode_MinusOne(id) ==
    CASE werr[id] = "exit" -> -1
      [] werr[id] = "other" -> -1
      [] OTHER -> 0

WatcherExitCode(id) ==
    CASE werr[id] = "exit" -> procExit[id]
      [] werr[id] = "other" -> -1
      [] OTHER -> 0

\* WatcherStatus with the test of err inverted
WatcherStatus_NilAsFailed(id) ==
    CASE werr[id] = "nil" -> "failed"
      [] werr[id] = "other" -> "cancelled"
      [] OTHER -> "completed"

WatcherStatus(id) ==
    CASE werr[id] = "exit" -> "failed"
      [] werr[id] = "other" -> "cancelled"
      [] OTHER -> "completed"

WriteExitCode(id) ==
    /\ wpc[id] = "w_code"
    /\ asyncCommands' = SetField(id, "ExitCode", WatcherExitCode(id))
    /\ wpc' = [wpc EXCEPT ![id] = "w_status"]
    /\ UNCHANGED <<proc, procExit, ctxDone, werr, now, cpc, cid, snap, obs,
                   results, uuids,
                   dvars, xvars>>

\* WriteStatus pushing a notification of the new status onto the output
WriteStatus_Notifies(id) ==
    /\ wpc[id] = "w_status"
    /\ asyncCommands' = SetField(id, "Status", WatcherStatus(id))
    /\ wpc' = [wpc EXCEPT ![id] = "done"]
    /\ output' = Append(output,
           [jsonrpc |-> "2.0", method |-> "notifications/command",
            params |-> [command_id |-> id, status |-> WatcherStatus(id)]])
    /\ outFrame' = Append(outFrame, 0)
    /\ UNCHANGED <<proc, procExit, ctxDone, werr, now, cpc, cid, snap, obs,
                   results, uuids, tools, input, rpc, runCtxDone, runErr,
                   invoked, xvars>>

\* the watcher dropping the record of the task it has seen end
WriteStatus_Evicts(id) ==
    /\ wpc[id] = "w_status"
    /\ asyncCommands' = [i \in Stored \ {id} |-> asyncCommands[i]]
    /\ wpc' = [wpc EXCEPT ![id] = "done"]
    /\ UNCHANGED <<proc, procExit, ctxDone, werr, now, cpc, cid, snap, obs,
                   results, uuids,
                   dvars, xvars>>

WriteStatus(id) ==
    /\ wpc[id] = "w_status"
    /\ asyncCommands' = SetField(id, "Status", WatcherStatus(id))
    /\ wpc' = [wpc EXCEPT ![id] = "done"]
    /\ UNCHANGED <<proc, procExit, ctxDone, werr, now, cpc, cid, snap, obs,
                   results, uuids,
                   dvars, xvars>>

\* ------------------------------- handleCancelCommand / Executor.CancelCommand
\* The condition under which CancelCommand goes on to cancel: the id is in
\* the table and the record's Status reads "running".
\* CancelAccepts refusing only a task that is already cancelled
CancelAccepts_NotCancelled(id) ==
    id \in Stored /\ Field(id, "Status") # "cancelled"

CancelAccepts(id) == id \in Stored /\ Field(id, "Status") = "running"

\* Load and the read of Status. A refusal returns false at once and
\* handleCancelCommand turns it into its "not found or already completed" error.
CancelCommandCheck(id) ==
    /\ cpc = "idle"
    /\ Calls < MaxCalls
    /\ IF CancelAccepts(id)
       THEN /\ cpc' = "c_cancel"
            /\ cid' = id
            /\ obs' = [NoObs EXCEPT !.running =
                         id \in Stored /\ Field(id, "Status") = "running"]
            /\ UNCHANGED results
       ELSE /\ results' = Append(results,
                   [op |-> "cancel", id |-> id, ret |-> FALSE,
                    running |-> id \in Stored /\ Field(id, "Status") = "running"])
            /\ UNCHANGED <<cpc, cid, obs>>
    /\ UNCHANGED <<asyncCommands, proc, procExit, ctxDone, wpc, werr, now,
                   snap, uuids,
                   dvars, xvars>>

\* asyncCmd.Cancel()
CancelCommandCancel ==
    /\ cpc = "c_cancel"
    /\ ctxDone' = [ctxDone EXCEPT ![cid] = TRUE]
    /\ cpc' = "c_set"
    /\ UNCHANGED <<asyncCommands, proc, procExit, wpc, werr, now, cid, snap,
                   obs, results, uuids,
                   dvars, xvars>>

\* CancelCommandSet with the write of Status left out
CancelCommandSet_NoFlip ==
    /\ cpc = "c_set"
    /\ results' = Append(results,
           [op |-> "cancel", id |-> cid, ret |-> TRUE, running |-> obs.running])
    /\ cpc' = "idle"
    /\ cid' = 0
    /\ obs' = NoObs
    /\ UNCHANGED <<asyncCommands, proc, procExit, ctxDone, wpc, werr, now,
                   snap, uuids, dvars, xvars>>

\* asyncCmd.Status = "cancelled"; return true
CancelCommandSet ==
    /\ cpc = "c_set"
    /\ asyncCommands' = SetField(cid, "Status", "cancelled")
    /\ results' = Append(results,
           [op |-> "cancel", id |-> cid, ret |-> TRUE, running |-> obs.running])
    /\ cpc' = "idle"
    /\ cid' = 0
    /\ obs' = NoObs
    /\ UNCHANGED <<proc, procExit, ctxDone, wpc, werr, now, snap, uuids,
                   dvars, xvars>>

\* ---------------------------- handleGetCommandStatus / Executor.GetStatus
\* GetStatus: Load. An unknown id is the handler's "command not found" error.
GetStatus(id) ==
    /\ cpc = "idle"
    /\ Calls < MaxCalls
    /\ IF id \in Stored
       THEN /\ cpc' = "s_status"
            /\ cid' = id
            /\ snap' = NoSnap
            /\ obs' = [NoObs EXCEPT !.terminal = Field(id, "Status") \in Terminal]
            /\ UNCHANGED results
       ELSE /\ results' = Append(results,
                   [op |-> "status", id |-> id, found |-> FALSE, snap |-> NoSnap,
                    terminal |-> FALSE, codeSet |-> FALSE])
            /\ UNCHANGED <<cpc, cid, snap, obs>>
    /\ UNCHANGED <<asyncCommands, proc, procExit, ctxDone, wpc, werr, now,
                   uuids,
                   dvars, xvars>>

\* the field reads of the result map literal, in source order
ReadStatus ==
    /\ cpc = "s_status"
    /\ snap' = [snap EXCEPT !.status = Field(cid, "Status")]
    /\ cpc' = "s_code"
    /\ UNCHANGED <<asyncCommands, proc, procExit, ctxDone, wpc, werr, now,
                   cid, obs, results, uuids,
                   dvars, xvars>>

ReadExitCode ==
    /\ cpc = "s_code"
    /\ snap' = [snap EXCEPT !.exit_code = Field(cid, "ExitCode")]
    /\ obs' = [obs EXCEPT !.codeSet = ExitCodeWritten(cid)]
    /\ cpc' = "s_out"
    /\ UNCHANGED <<asyncCommands, proc, procExit, ctxDone, wpc, werr, now,
                   cid, results, uuids,
                   dvars, xvars>>

ReadStdout ==
    /\ cpc = "s_out"
    /\ snap' = [snap EXCEPT !.stdout = Field(cid, "Stdout")]
    /\ cpc' = "s_err"
    /\ UNCHANGED <<asyncCommands, proc, procExit, ctxDone, wpc, werr, now,
                   cid, obs, results, uuids,
                   dvars, xvars>>

ReadStderr ==
    /\ cpc = "s_err"
    /\ snap' = [snap EXCEPT !.stderr = Field(cid, "Stderr")]
    /\ cpc' = "s_end"
    /\ UNCHANGED <<asyncCommands, proc, procExit, ctxDone, wpc, werr, now,
                   cid, obs, results, uuids,
                   dvars, xvars>>

\* the duration entry: duration_ms from a set EndTime, else elapsed_ms, which
\* the handler fills with StartTime.Unix()
Duration(id) ==
    IF ~IsZero(Field(id, "EndTime"))
    THEN [key |-> "duration_ms",
          val |-> Field(id, "EndTime") - Field(id, "StartTime")]
    ELSE [key |-> "elapsed_ms", val |-> Field(id, "StartTime")]

ReadEndTime ==
    /\ cpc = "s_end"
    /\ LET d == Duration(cid)
           final == [snap EXCEPT !.dur_key = d.key, !.dur_val = d.val]
       IN results' = Append(results,
              [op |-> "status", id |-> cid, found |-> TRUE, snap |-> final,
               terminal |-> obs.terminal, codeSet |-> obs.codeSet])
    /\ cpc' = "idle"
    /\ cid' = 0
    /\ snap' = NoSnap
    /\ obs' = NoObs
    /\ UNCHANGED <<asyncCommands, proc, procExit, ctxDone, wpc, werr, now,
                   uuids,
                   dvars, xvars>>

\* ------------------------------------------------------- specification
NextAsync ==
    \/ Tick
    \/ \E id \in IDs : RunAsync(id)
    \/ \E id \in IDs, s \in Streams : ProcWrite(id, s)
    \/ \E id \in IDs, c \in NaturalExits : ProcExit(id, c)
    \/ \E id \in IDs : ProcKill(id)
    \/ \E id \in IDs : WaitReturn(id)
    \/ \E id \in IDs : WriteEndTime(id)
    \/ \E id \in IDs : WriteExitCode(id)
    \/ \E id \in IDs : WriteStatus(id)
    \/ \E id \in CallIds : CancelCommandCheck(id)
    \/ CancelCommandCancel
    \/ CancelCommandSet
    \/ \E id \in CallIds : GetStatus(id)
    \/ ReadStatus
    \/ ReadExitCode
    \/ ReadStdout
    \/ ReadStderr
    \/ ReadEndTime


\* ====================================================== Executor.RunSync
\* Strings are sequences of bytes.
Bytes == {"x", "y"}
TimedOutText == <<"c","o","m","m","a","n","d"," ","t","i","m","e","d"," ",
                  "o","u","t">>
TruncatedText == <<"\n",".",".","."," ","(","t","r","u","n","c","a","t","e",
                   "d",")">>
\* (context.Canceled).Error()
CanceledText == <<"c","o","n","t","e","x","t"," ","c","a","n","c","e","l",
                  "e","d">>
\* the text of the error of a cmd.Start() that could not start the command;
\* it names the command and the reason
StartErrText == <<"e","x","e","c",":">>
\* the timeout_seconds a caller passes
Timeouts == -1..MaxTimeout
NoResult == [ExitCode |-> 0, Stdout |-> <<>>, Stderr |-> <<>>, DurationMs |-> 0]

InitSync ==
    /\ spc = "idle"
    /\ timeoutSeconds = 0
    /\ elapsed = 0
    /\ sctx = "nil"
    /\ sproc = "none"
    /\ sexit = 0
    /\ captured = [s \in Streams |-> <<>>]
    /\ orphan = FALSE
    /\ runerr = "nil"
    /\ syncResult = NoResult
    /\ killedOn = "nil"

\* the timeout RunSync binds its context to
EffectiveTimeout(t) == IF t <= 0 THEN DefaultTimeoutSeconds ELSE t

\* RunSync up to cmd.Run(): the default, context.WithTimeout, the buffers.
\* parentDone: the context the handler was given is already cancelled.
RunSync(t, parentDone) ==
    /\ spc = "idle"
    /\ timeoutSeconds' = EffectiveTimeout(t)
    /\ elapsed' = 0
    /\ sctx' = IF parentDone THEN "canceled" ELSE "nil"
    /\ spc' = "start"
    /\ UNCHANGED <<sproc, sexit, captured, orphan, runerr, syncResult,
                   killedOn, avars, dvars, hvars, evars>>

\* between the call and the return of RunSync
InRunSync == spc \in {"start", "run", "ran"}

\* a second passes
SyncTick ==
    /\ InRunSync
    /\ elapsed < timeoutSeconds
    /\ elapsed' = elapsed + 1
    /\ UNCHANGED <<spc, timeoutSeconds, sctx, sproc, sexit, captured, orphan,
                   runerr, syncResult, killedOn, avars, dvars, hvars, evars>>

\* the timer of context.WithTimeout fires
DeadlineExpires ==
    /\ InRunSync
    /\ sctx = "nil"
    /\ elapsed = timeoutSeconds
    /\ sctx' = "deadline"
    /\ UNCHANGED <<spc, timeoutSeconds, elapsed, sproc, sexit, captured,
                   orphan, runerr, syncResult, killedOn, avars, dvars, hvars, evars>>

\* the context handed to Run, parent of RunSync's, is cancelled
ParentCancel ==
    /\ InRunSync
    /\ sctx = "nil"
    /\ sctx' = "canceled"
    /\ UNCHANGED <<spc, timeoutSeconds, elapsed, sproc, sexit, captured,
                   orphan, runerr, syncResult, killedOn, avars, dvars, hvars, evars>>

\* cmd.Run(), its Start: a done context or a command that cannot be started
\* ends Run with that error; otherwise the subprocess runs, writing into the
\* pipes that feed the two buffers. leaves: the command leaves a descendant
\* behind that inherited the pipes.
CmdStart(leaves) ==
    /\ spc = "start"
    /\ IF sctx # "nil"
       THEN /\ runerr' = "ctx"
            /\ spc' = "ran"
            /\ UNCHANGED <<sproc, orphan>>
       ELSE \/ /\ runerr' = "start"
               /\ spc' = "ran"
               /\ UNCHANGED <<sproc, orphan>>
            \/ /\ sproc' = "running"
               /\ orphan' = leaves
               /\ spc' = "run"
               /\ UNCHANGED runerr
    /\ UNCHANGED <<timeoutSeconds, elapsed, sctx, sexit, captured, syncResult,
                   killedOn, avars, dvars, hvars, evars>>

SyncProcWrite(s, b) ==
    /\ sproc = "running"
    /\ Len(captured[s]) < MaxSyncOut
    /\ captured' = [captured EXCEPT ![s] = Append(@, b)]
    /\ UNCHANGED <<spc, timeoutSeconds, elapsed, sctx, sproc, sexit, orphan,
                   runerr, syncResult, killedOn, avars, dvars, hvars, evars>>

SyncProcExit(code) ==
    /\ sproc = "running"
    /\ sproc' = "exited"
    /\ sexit' = code
    /\ UNCHANGED <<spc, timeoutSeconds, elapsed, sctx, captured, orphan,
                   runerr, syncResult, killedOn, avars, dvars, hvars, evars>>

\* exec.CommandContext kills the subprocess once the context is done
SyncProcKill ==
    /\ sproc = "running"
    /\ sctx # "nil"
    /\ sproc' = "exited"
    /\ sexit' = SignalExit
    /\ killedOn' = sctx
    /\ UNCHANGED <<spc, timeoutSeconds, elapsed, sctx, captured, orphan,
                   runerr, syncResult, avars, dvars, hvars, evars>>

\* the descendant exits or closes its copies of the pipes
OrphanCloses ==
    /\ orphan
    /\ orphan' = FALSE
    /\ UNCHANGED <<spc, timeoutSeconds, elapsed, sctx, sproc, sexit, captured,
                   runerr, syncResult, killedOn, avars, dvars, hvars, evars>>

\* What cmd.Run() returns for a subprocess that has ended: an *exec.ExitError
\* for a non-zero status or a signal, nil for status 0, or the context's
\* error for status 0 when the context was done before Wait saw the exit.
RunErrs ==
    IF sexit # 0 THEN {"exit"}
    ELSE IF sctx # "nil" THEN {"nil", "ctx"}
    ELSE {"nil"}

\* cmd.Run() returns: the subprocess has ended and both pipes are at EOF,
\* which takes every holder of their write ends to have closed them
\* (cmd.WaitDelay is not set)
CmdRunReturn ==
    /\ spc = "run"
    /\ sproc = "exited"
    /\ ~orphan
    /\ \E e \in RunErrs : runerr' = e
    /\ spc' = "ran"
    /\ UNCHANGED <<timeoutSeconds, elapsed, sctx, sproc, sexit, captured,
                   orphan, syncResult, killedOn, avars, dvars, hvars, evars>>

\* err.Error() of an error of cmd.Run() that is no *exec.ExitError
ErrorText(e) ==
    CASE e = "start" -> StartErrText
      [] e = "ctx" /\ sctx = "deadline" ->
             <<"c","o","n","t","e","x","t"," ","d","e","a","d","l","i","n","e",
               " ","e","x","c","e","e","d","e","d">>
      [] OTHER -> CanceledText

\* Truncate cutting a stream that is exactly as long as the limit as well
Truncate_AtLimitOrMore(str) ==
    IF Len(str) >= MaxOutputSizeBytes
    THEN SubSeq(str, 1, MaxOutputSizeBytes) \o TruncatedText
    ELSE str

\* s[:MaxOutputSizeBytes] + "\n... (truncated)" for a longer s
Truncate(str) ==
    IF Len(str) > MaxOutputSizeBytes
    THEN SubSeq(str, 1, MaxOutputSizeBytes) \o TruncatedText
    ELSE str

\* result.ExitCode and result.Stderr once the err of cmd.Run() is looked at
ResultExitCode ==
    CASE runerr = "nil" -> 0
      [] runerr = "exit" -> sexit
      [] OTHER -> -1

ResultStderr ==
    CASE runerr \in {"nil", "exit"} -> captured["Stderr"]
      [] sctx = "deadline" -> TimedOutText
      [] OTHER -> ErrorText(runerr)

\* the rest of RunSync: the result, the error branches, the two truncations
RunSyncReturn ==
    /\ spc = "ran"
    /\ syncResult' = [ExitCode |-> ResultExitCode,
                      Stdout |-> Truncate(captured["Stdout"]),
                      Stderr |-> Truncate(ResultStderr),
                      DurationMs |-> elapsed * 1000]
    /\ spc' = "returned"
    /\ UNCHANGED <<timeoutSeconds, elapsed, sctx, sproc, sexit, captured,
                   orphan, runerr, killedOn, avars, dvars, hvars, evars>>

NextSync ==
    \/ \E t \in Timeouts, d \in BOOLEAN : RunSync(t, d)
    \/ SyncTick
    \/ DeadlineExpires
    \/ ParentCancel
    \/ \E l \in BOOLEAN : CmdStart(l)
    \/ \E s \in Streams, b \in Bytes : SyncProcWrite(s, b)
    \/ \E c \in NaturalExits : SyncProcExit(c)
    \/ SyncProcKill
    \/ OrphanCloses
    \/ CmdRunReturn
    \/ RunSyncReturn

\* ======================================================== the dispatcher
\* ------------------------------------------------------ frames and values
\* a Go nil interface / an omitted JSON member
Absent == [absent |-> TRUE]
\* Request.ID of a frame that carries no id, and the id of a parse error
NullId == "null"
RequestIds == {NullId, "7"}
Methods == {"initialize", "tools/list", "tools/call",
            "notifications/initialized", "resources/list"}

\* the "arguments" object of a tools/call: parameter name -> typed value
Arguments ==
    { <<>>,
      [command_id |-> [type |-> "string", val |-> "1"]],
      [command_id |-> [type |-> "number", val |-> "1"]] }

\* the "params" member of a request: absent, not an object of the expected
\* shape, the JSON null (which the RawMessage keeps as it is), or
\* {name, arguments}
NoParams == [shape |-> "absent"]
BadParams == [shape |-> "undecodable"]
CallParams ==
    {[shape |-> "call", name |-> "get_shell_info", arguments |-> <<>>],
     [shape |-> "call", name |-> "no_such_tool", arguments |-> <<>>]}
    \cup {[shape |-> "call", name |-> "cancel_command", arguments |-> a] :
              a \in Arguments}

\* one line of the input: empty, longer than the scanner's buffer limit, not
\* a JSON request envelope, or a request envelope
Frames ==
    {[kind |-> "empty"], [kind |-> "toolong"], [kind |-> "garbage"]}
    \cup {[kind |-> "request", id |-> i, method |-> m, params |-> NoParams] :
              i \in RequestIds, m \in Methods}
    \cup {[kind |-> "request", id |-> i, method |-> "tools/call", params |-> q] :
              i \in RequestIds,
              q \in {BadParams, [shape |-> "null"]} \cup CallParams}

\* ------------------------------------------------------- pkg/mcp helpers
GetStringParam(params, key, required) ==
    IF key \notin DOMAIN params
    THEN IF required
         THEN [val |-> "", err |-> "missing required parameter"]
         ELSE [val |-> "", err |-> "nil"]
    ELSE IF params[key].type # "string"
         THEN [val |-> "", err |-> "parameter must be a string"]
         ELSE [val |-> params[key].val, err |-> "nil"]

TextResult(text) ==
    [content |-> <<[type |-> "text", text |-> text]>>, isError |-> FALSE]

\* ------------------------------------------------ the registered handlers
\* What a handler returns: a result with a nil error, or a nil result with an
\* error. Under SpecRun no command is ever spawned, so the handlers leave the
\* executor's state alone: CancelCommand returns false in its first step.
handleGetShellInfo(args) ==
    [result |-> TextResult("shell info"), err |-> "nil"]

handleCancelCommand(args) ==
    LET commandID == GetStringParam(args, "command_id", TRUE)
    IN IF commandID.err # "nil"
       THEN [result |-> Absent, err |-> commandID.err]
       ELSE [result |-> Absent,
             err |-> "command not found or already completed"]

ToolDefs ==
    {[Name |-> "get_shell_info", Handler |-> "handleGetShellInfo"],
     [Name |-> "cancel_command", Handler |-> "handleCancelCommand"]}

\* tool.Handler(ctx, params.Arguments)
CallHandler(tool, args) ==
    CASE tool.Handler = "handleGetShellInfo" -> handleGetShellInfo(args)
      [] tool.Handler = "handleCancelCommand" -> handleCancelCommand(args)

\* ---------------------------------------------------------- the envelope
sendResult(id, result) ==
    [jsonrpc |-> "2.0", id |-> id, result |-> result, error |-> Absent]

\* sendError answering every error with a null id
sendError_NullId(id, code, message, data) ==
    [jsonrpc |-> "2.0", id |-> "null", result |-> Absent,
     error |-> [code |-> code, message |-> message, data |-> data]]

sendError(id, code, message, data) ==
    [jsonrpc |-> "2.0", id |-> id, result |-> Absent,
     error |-> [code |-> code, message |-> message, data |-> data]]

\* json.Unmarshal(line, &req): a frame that is not a request envelope is an
\* error, a request envelope decodes to its id, method and raw params
UnmarshalRequest(line) ==
    IF line.kind = "request"
    THEN [err |-> "nil",
          req |-> [ID |-> line.id, Method |-> line.method,
                   Params |-> line.params]]
    ELSE [err |-> "invalid character",
          req |-> [ID |-> NullId, Method |-> "", Params |-> NoParams]]

\* json.Unmarshal(req.Params, &params) in handleToolsCall: a null leaves
\* the struct at its zero value with no error, no input at all is an error
UnmarshalParams(raw) ==
    CASE raw.shape = "call" ->
             [err |-> "nil", Name |-> raw.name, Arguments |-> raw.arguments]
      [] raw.shape = "null" ->
             [err |-> "nil", Name |-> "", Arguments |-> <<>>]
      [] raw.shape = "absent" ->
             [err |-> "unexpected end of JSON input", Name |-> "",
              Arguments |-> <<>>]
      [] OTHER ->
             [err |-> "cannot unmarshal", Name |-> "", Arguments |-> <<>>]

\* ------------------------------------------------------------ the routes
\* Each route yields what it writes (out: the responses, in order) and the
\* handlers it calls (calls: tool names, in order).
\* s.name and s.version, as main gives them to NewServer
ServerName == "local-mcps-all"
ServerVersion == "1.0.0"

\* handleInitialize announcing no capability
handleInitialize_NoCapabilities(req) ==
    [out |-> <<sendResult(req.ID,
                 [protocolVersion |-> "2024-11-05",
                  capabilities |-> <<>>,
                  serverInfo |-> [name |-> ServerName,
                                  version |-> ServerVersion]])>>,
     calls |-> <<>>]

handleInitialize(req) ==
    [out |-> <<sendResult(req.ID,
                 [protocolVersion |-> "2024-11-05",
                  capabilities |-> [tools |-> <<>>],
                  serverInfo |-> [name |-> ServerName,
                                  version |-> ServerVersion]])>>,
     calls |-> <<>>]

\* for _, tool := range s.tools { tools = append(tools, ...) } over the
\* entries under the keys in names; the listing holds one of the orders a
\* map iteration takes
RECURSIVE RangeTools(_, _)
RangeTools(ts, names) ==
    IF names = {} THEN <<>>
    ELSE LET n == CHOOSE k \in names : TRUE
         IN <<[name |-> ts[n].Name]>> \o RangeTools(ts, names \ {n})

\* handleToolsList making the slice with a length instead of a capacity
handleToolsList_PreSized(req) ==
    [out |-> <<sendResult(req.ID,
                 [tools |-> [i \in 1..Cardinality(DOMAIN tools) |->
                                [name |-> ""]]
                            \o RangeTools(tools, DOMAIN tools)])>>,
     calls |-> <<>>]

handleToolsList(req) ==
    [out |-> <<sendResult(req.ID,
                 [tools |-> RangeTools(tools, DOMAIN tools)])>>,
     calls |-> <<>>]

\* handleToolsCall reporting a handler's error as a protocol error
handleToolsCall_ErrorAsProtocol(req) ==
    LET params == UnmarshalParams(req.Params)
    IN IF params.err # "nil"
       THEN [out |-> <<sendError(req.ID, -32602, "Invalid params", params.err)>>,
             calls |-> <<>>]
       ELSE IF params.Name \notin DOMAIN tools
       THEN [out |-> <<sendError(req.ID, -32602, "Unknown tool", params.Name)>>,
             calls |-> <<>>]
       ELSE LET r == CallHandler(tools[params.Name], params.Arguments)
            IN IF r.err # "nil"
               THEN [out |-> <<sendError(req.ID, -32603, "Internal error",
                                         r.err)>>,
                     calls |-> <<params.Name>>]
               ELSE [out |-> <<sendResult(req.ID, r.result)>>,
                     calls |-> <<params.Name>>]

\* handleToolsCall answering an unregistered name with "Method not found"
handleToolsCall_UnknownAsMethod(req) ==
    LET params == UnmarshalParams(req.Params)
    IN IF params.err # "nil"
       THEN [out |-> <<sendError(req.ID, -32602, "Invalid params", params.err)>>,
             calls |-> <<>>]
       ELSE IF params.Name \notin DOMAIN tools
       THEN [out |-> <<sendError(req.ID, -32601, "Method not found",
                                 params.Name)>>,
             calls |-> <<>>]
       ELSE LET r == CallHandler(tools[params.Name], params.Arguments)
            IN IF r.err # "nil"
               THEN [out |-> <<sendResult(req.ID,
                                 [content |-> <<[type |-> "text",
                                                 text |-> r.err]>>,
                                  isError |-> TRUE])>>,
                     calls |-> <<params.Name>>]
               ELSE [out |-> <<sendResult(req.ID, r.result)>>,
                     calls |-> <<params.Name>>]

\* handleToolsCall going on to the lookup after a decoding error
handleToolsCall_IgnoresDecodeError(req) ==
    LET params == UnmarshalParams(req.Params)
    IN IF params.Name \notin DOMAIN tools
       THEN [out |-> <<sendError(req.ID, -32602, "Unknown tool", params.Name)>>,
             calls |-> <<>>]
       ELSE LET r == CallHandler(tools[params.Name], params.Arguments)
            IN IF r.err # "nil"
               THEN [out |-> <<sendResult(req.ID,
                                 [content |-> <<[type |-> "text",
                                                 text |-> r.err]>>,
                                  isError |-> TRUE])>>,
                     calls |-> <<params.Name>>]
               ELSE [out |-> <<sendResult(req.ID, r.result)>>,
                     calls |-> <<params.Name>>]

handleToolsCall(req) ==
    LET params == UnmarshalParams(req.Params)
    IN IF params.err # "nil"
       THEN [out |-> <<sendError(req.ID, -32602, "Invalid params", params.err)>>,
             calls |-> <<>>]
       ELSE IF params.Name \notin DOMAIN tools
       THEN [out |-> <<sendError(req.ID, -32602, "Unknown tool", params.Name)>>,
             calls |-> <<>>]
       ELSE LET r == CallHandler(tools[params.Name], params.Arguments)
            IN IF r.err # "nil"
               THEN [out |-> <<sendResult(req.ID,
                                 [content |-> <<[type |-> "text",
                                                 text |-> r.err]>>,
                                  isError |-> TRUE])>>,
                     calls |-> <<params.Name>>]
               ELSE [out |-> <<sendResult(req.ID, r.result)>>,
                     calls |-> <<params.Name>>]

\* handleRequest without the case of the notification method
handleRequest_NoNotificationCase(req) ==
    CASE req.Method = "initialize" -> handleInitialize(req)
      [] req.Method = "tools/list" -> handleToolsList(req)
      [] req.Method = "tools/call" -> handleToolsCall(req)
      [] OTHER ->
             [out |-> <<sendError(req.ID, -32601, "Method not found",
                                  req.Method)>>,
              calls |-> <<>>]

\* handleRequest dropping a request whose method it does not know
handleRequest_IgnoresUnknown(req) ==
    CASE req.Method = "initialize" -> handleInitialize(req)
      [] req.Method = "tools/list" -> handleToolsList(req)
      [] req.Method = "tools/call" -> handleToolsCall(req)
      [] OTHER -> [out |-> <<>>, calls |-> <<>>]

handleRequest(req) ==
    CASE req.Method = "initialize" -> handleInitialize(req)
      [] req.Method = "tools/list" -> handleToolsList(req)
      [] req.Method = "tools/call" -> handleToolsCall(req)
      [] req.Method = "notifications/initialized" ->
             [out |-> <<>>, calls |-> <<>>]
      [] OTHER ->
             [out |-> <<sendError(req.ID, -32601, "Method not found",
                                  req.Method)>>,
              calls |-> <<>>]

\* the loop body without the test for an empty line
LoopBody_NoEmptyCheck(line) ==
    LET u == UnmarshalRequest(line)
    IN IF u.err # "nil"
       THEN [out |-> <<sendError(NullId, -32700, "Parse error", u.err)>>,
             calls |-> <<>>]
       ELSE handleRequest(u.req)

\* the body of Run's loop for one scanned line, the context not being done
LoopBody(line) ==
    IF line.kind = "empty"
    THEN [out |-> <<>>, calls |-> <<>>]
    ELSE LET u == UnmarshalRequest(line)
         IN IF u.err # "nil"
            THEN [out |-> <<sendError(NullId, -32700, "Parse error", u.err)>>,
                  calls |-> <<>>]
            ELSE handleRequest(u.req)

\* ------------------------------------------------------------ Server.Run
InitServer ==
    /\ tools = <<>>
    /\ input = <<>>
    /\ output = <<>>
    /\ rpc = "startup"
    /\ runCtxDone = FALSE
    /\ runErr = "none"
    /\ outFrame = <<>>
    /\ invoked = <<>>

\* no handler is running
NoCall == [tool |-> "", id |-> 0, mark |-> 0]

\* handleRunCommand has not been called
NoRunCommand == [args |-> <<>>, err |-> "none", result |-> Absent]

\* no accessor has been called
NoAccess == [fn |-> "none", args |-> <<>>, required |-> FALSE, def |-> 0,
             ret |-> [val |-> "", err |-> "nil"]]

InitHandler == hcall = NoCall /\ hparams = NoRunCommand /\ pcall = NoAccess

\* environment.NewServer: an empty session store
InitEnvironment == sessionEnv = <<>> /\ elog = <<>>

Init ==
    InitExecutor /\ InitServer /\ InitSync /\ InitHandler /\ InitEnvironment

\* s.tools[tool.Name] = tool, during start-up
RegisterTool(tool) ==
    /\ rpc = "startup"
    /\ tools' = [n \in DOMAIN tools \cup {tool.Name} |->
                    IF n = tool.Name THEN tool ELSE tools[n]]
    /\ UNCHANGED <<input, output, rpc, runCtxDone, runErr, outFrame, invoked,
                   avars, xvars>>

\* main calls Run once every tool is registered
RunStart ==
    /\ rpc = "startup"
    /\ DOMAIN tools = {t.Name : t \in ToolDefs}
    /\ rpc' = "scan"
    /\ UNCHANGED <<tools, input, output, runCtxDone, runErr, outFrame,
                   invoked, avars, xvars>>

\* Scan handing a line over the buffer limit to the loop body
Scan_TooLongIsDelivered(f) ==
    /\ rpc = "scan"
    /\ Len(input) < MaxFrames
    /\ input' = Append(input, f)
    /\ rpc' = "select"
    /\ UNCHANGED <<tools, output, runCtxDone, runErr, outFrame, invoked,
                   avars, xvars>>

\* scanner.Scan() delivers the next line; a line over the buffer limit ends
\* the loop and Run returns scanner.Err()
Scan(f) ==
    /\ rpc = "scan"
    /\ Len(input) < MaxFrames
    /\ input' = Append(input, f)
    /\ IF f.kind = "toolong"
       THEN rpc' = "returned" /\ runErr' = "token too long"
       ELSE rpc' = "select" /\ UNCHANGED runErr
    /\ UNCHANGED <<tools, output, runCtxDone, outFrame, invoked, avars, xvars>>

\* Run reporting the end of the input as an error
ScanEOF_AsError ==
    /\ rpc = "scan"
    /\ rpc' = "returned"
    /\ runErr' = "EOF"
    /\ UNCHANGED <<tools, input, output, runCtxDone, outFrame, invoked,
                   avars, xvars>>

\* scanner.Scan() meets the end of the input: Run returns scanner.Err() = nil
ScanEOF ==
    /\ rpc = "scan"
    /\ rpc' = "returned"
    /\ runErr' = "nil"
    /\ UNCHANGED <<tools, input, output, runCtxDone, outFrame, invoked,
                   avars, xvars>>

\* Iterate returning the decoding error instead of answering it
Iterate_ReturnOnParseError ==
    /\ rpc = "select"
    /\ IF runCtxDone
       THEN /\ rpc' = "returned"
            /\ runErr' = "context canceled"
            /\ UNCHANGED <<output, outFrame, invoked>>
       ELSE IF input[Len(input)].kind = "garbage"
       THEN /\ rpc' = "returned"
            /\ runErr' = "invalid character"
            /\ UNCHANGED <<output, outFrame, invoked>>
       ELSE LET k == Len(input)
                e == LoopBody(input[k])
            IN /\ output' = output \o e.out
               /\ outFrame' = outFrame \o [i \in 1..Len(e.out) |-> k]
               /\ invoked' = invoked \o [i \in 1..Len(e.calls) |->
                                            <<k, e.calls[i]>>]
               /\ rpc' = "scan"
               /\ UNCHANGED runErr
    /\ UNCHANGED <<tools, input, runCtxDone, avars, xvars>>

\* Iterate without the select on the context
Iterate_IgnoresCtx ==
    /\ rpc = "select"
    /\ LET k == Len(input)
           e == LoopBody(input[k])
       IN /\ output' = output \o e.out
          /\ outFrame' = outFrame \o [i \in 1..Len(e.out) |-> k]
          /\ invoked' = invoked \o [i \in 1..Len(e.calls) |->
                                       <<k, e.calls[i]>>]
          /\ rpc' = "scan"
          /\ UNCHANGED runErr
    /\ UNCHANGED <<tools, input, runCtxDone, avars, xvars>>

\* one pass of the loop body over the line just scanned
Iterate ==
    /\ rpc = "select"
    /\ IF runCtxDone
       THEN /\ rpc' = "returned"
            /\ runErr' = "context canceled"
            /\ UNCHANGED <<output, outFrame, invoked>>
       ELSE LET k == Len(input)
                e == LoopBody(input[k])
            IN /\ output' = output \o e.out
               /\ outFrame' = outFrame \o [i \in 1..Len(e.out) |-> k]
               /\ invoked' = invoked \o [i \in 1..Len(e.calls) |->
                                            <<k, e.calls[i]>>]
               /\ rpc' = "scan"
               /\ UNCHANGED runErr
    /\ UNCHANGED <<tools, input, runCtxDone, avars, xvars>>

\* SIGINT or SIGTERM reaches main's signal goroutine, which cancels the context
CtxCancel ==
    /\ rpc \in {"scan", "select"}
    /\ ~runCtxDone
    /\ runCtxDone' = TRUE
    /\ UNCHANGED <<tools, input, output, rpc, runErr, outFrame, invoked,
                   avars, xvars>>

\* Run is called with whatever has been registered, as the package's tests
\* call it
RunAny ==
    /\ rpc = "startup"
    /\ rpc' = "scan"
    /\ UNCHANGED <<tools, input, output, runCtxDone, runErr, outFrame,
                   invoked, avars, xvars>>

\* other definitions under the names of ToolDefs
Replacements ==
    {[Name |-> "get_shell_info", Handler |-> "handleCancelCommand"],
     [Name |-> "cancel_command", Handler |-> "handleGetShellInfo"]}

\* RegisterTool called again for a name that is registered already
Reregister(tool) == tool.Name \in DOMAIN tools /\ RegisterTool(tool)

RegistryFrames ==
    {[kind |-> "empty"]}
    \cup {[kind |-> "request", id |-> i, method |-> "tools/list",
           params |-> NoParams] : i \in RequestIds}

NextRegistry ==
    \/ \E t \in ToolDefs : RegisterTool(t)
    \/ \E t \in Replacements : Reregister(t)
    \/ RunAny
    \/ \E f \in RegistryFrames : Scan(f)
    \/ ScanEOF
    \/ Iterate
    \/ CtxCancel

SpecRegistry == Init /\ [][NextRegistry]_vars

NextRun ==
    \/ \E t \in ToolDefs : RegisterTool(t)
    \/ RunStart
    \/ \E f \in Frames : Scan(f)
    \/ ScanEOF
    \/ Iterate
    \/ CtxCancel

SpecRun == Init /\ [][NextRun]_vars

\* ============================ the dispatch loop with the command tools
\* The loop of Server.Run with the asynchronous command tools registered:
\* their handlers run the executor's operations on the dispatch goroutine,
\* between the scan of a frame and its response, while the processes and
\* the watcher goroutines of the spawned tasks take their own steps.
ExecutorTools == {"run_command_async", "get_command_status", "cancel_command"}

CommandTools ==
    {[Name |-> "run_command_async", Handler |-> "handleRunCommandAsync"],
     [Name |-> "get_command_status", Handler |-> "handleGetCommandStatus"],
     [Name |-> "cancel_command", Handler |-> "handleCancelCommand"],
     [Name |-> "get_shell_info", Handler |-> "handleGetShellInfo"]}

\* A command line is a string of characters, held as a sequence.
\* strings.Contains(s, substr)
RECURSIVE Contains(_, _)
Contains(str, substr) ==
    IF Len(substr) > Len(str) THEN FALSE
    ELSE IF SubSeq(str, 1, Len(substr)) = substr THEN TRUE
    ELSE Contains(Tail(str), substr)

\* strings.HasPrefix(s, prefix)
HasPrefix(str, prefix) ==
    Len(prefix) <= Len(str) /\ SubSeq(str, 1, Len(prefix)) = prefix

\* command + " " + strings.Join(args, " ")
RECURSIVE FullCmd(_, _)
FullCmd(command, args) ==
    IF args = <<>> THEN command
    ELSE FullCmd(command \o <<" ">> \o Head(args), Tail(args))

\* CommandConfig.DeniedCommands and AllowedCommands of the default config
DeniedCommands == <<<<"r", "m", " ", "-", "r", "f", " ", "/">>,
                    <<"s", "u", "d", "o">>>>
AllowedCommands == <<>>

\* ValidateCommand looking at the allowed list before the denied one
ValidateCommand_AllowedFirst(allowed, denied, command, args) ==
    IF command = <<>> THEN "invalid input: empty command"
    ELSE IF \E i \in DOMAIN allowed : HasPrefix(command, allowed[i])
    THEN "nil"
    ELSE IF \E i \in DOMAIN denied :
               Contains(FullCmd(command, args), denied[i])
    THEN "command denied: command matches denied pattern"
    ELSE IF Len(allowed) = 0 THEN "nil"
    ELSE "command denied: command not in allowed list"

\* CommandValidator.ValidateCommand of a validator with the given lists
ValidateCommand(allowed, denied, command, args) ==
    IF command = <<>> THEN "invalid input: empty command"
    ELSE IF \E i \in DOMAIN denied :
               Contains(FullCmd(command, args), denied[i])
    THEN "command denied: command matches denied pattern"
    ELSE IF Len(allowed) = 0 THEN "nil"
    ELSE IF \E i \in DOMAIN allowed : HasPrefix(command, allowed[i])
    THEN "nil"
    ELSE "command denied: command not in allowed list"

\* the arguments of the calls of the command tools
CommandArguments(name) ==
    IF name = "run_command_async"
    THEN {<<>>, [command |-> [type |-> "string", val |-> <<"l", "s">>]],
          [command |-> [type |-> "string",
                        val |-> <<"s", "u", "d", "o">>]]}
    ELSE {<<>>} \cup {[command_id |-> [type |-> "string", val |-> i]] :
                         i \in IDs \cup {UnknownId}}

ServeFrames ==
    {[kind |-> "garbage"],
     [kind |-> "request", id |-> NullId,
      method |-> "notifications/initialized", params |-> NoParams],
     [kind |-> "request", id |-> "7", method |-> "tools/list",
      params |-> NoParams]}
    \cup UNION {{[kind |-> "request", id |-> "7", method |-> "tools/call",
                  params |-> [shape |-> "call", name |-> n, arguments |-> a]] :
                     a \in CommandArguments(n)} : n \in ExecutorTools}

\* the frame is a tools/call of one of the executor's tools
ExecutorCall(f) ==
    /\ f.kind = "request"
    /\ f.method = "tools/call"
    /\ f.params.shape = "call"
    /\ f.params.name \in ExecutorTools

\* the parameter the handler of the tool requires
RequiredParam(name) ==
    IF name = "run_command_async" THEN "command" ELSE "command_id"

ErrorResult(err) ==
    [content |-> <<[type |-> "text", text |-> err]>>, isError |-> TRUE]

\* json.MarshalIndent of v, as the text of a result
JSONResult(v) == TextResult([json |-> v])

\* command.Server.RegisterTools, then main's call of Run
ServeStart ==
    /\ rpc = "startup"
    /\ tools = <<>>
    /\ tools' = [n \in {t.Name : t \in CommandTools} |->
                    CHOOSE t \in CommandTools : t.Name = n]
    /\ rpc' = "scan"
    /\ UNCHANGED <<input, output, runCtxDone, runErr, outFrame, invoked,
                   avars, xvars>>

\* The frames a caller sends: a command_id it was given or one that names
\* nothing; within the bounds on tasks and calls.
Sendable(f) ==
    IF ~ExecutorCall(f) THEN TRUE
    ELSE IF f.params.name = "run_command_async" THEN uuids # IDs
    ELSE /\ Calls < MaxCalls
         /\ "command_id" \in DOMAIN f.params.arguments
                => f.params.arguments["command_id"].val \in CallIds

ServeScan(f) == Sendable(f) /\ Scan(f)

\* the loop body on a frame that reaches no handler of the executor's tools
ServeIterate ==
    /\ rpc = "select"
    /\ runCtxDone \/ ~ExecutorCall(input[Len(input)])
    /\ Iterate

\* handleToolsCall on a call of an executor tool, up to the handler's call
\* of the executor: a parameter or validation error is answered at once
HandlerEnter ==
    /\ rpc = "select"
    /\ ~runCtxDone
    /\ ExecutorCall(input[Len(input)])
    /\ LET k == Len(input)
           f == input[k]
           name == f.params.name
           p == GetStringParam(f.params.arguments, RequiredParam(name), TRUE)
           err == IF p.err # "nil" THEN p.err
                  ELSE IF name = "run_command_async"
                       THEN ValidateCommand(AllowedCommands, DeniedCommands,
                                            p.val, <<>>)
                       ELSE "nil"
       IN /\ invoked' = Append(invoked, <<k, name>>)
          /\ IF err # "nil"
             THEN /\ output' = Append(output, sendResult(f.id, ErrorResult(err)))
                  /\ outFrame' = Append(outFrame, k)
                  /\ rpc' = "scan"
                  /\ UNCHANGED hcall
             ELSE /\ hcall' = [tool |-> name,
                               id |-> IF name = "run_command_async"
                                      THEN UnknownId ELSE p.val,
                               mark |-> Len(results)]
                  /\ rpc' = "handler"
                  /\ UNCHANGED <<output, outFrame>>
    /\ UNCHANGED <<tools, input, runCtxDone, runErr, hparams, pcall, avars,
                   svars, evars>>

\* the handler is about to call the executor
AtExecutorCall(name) ==
    /\ rpc = "handler"
    /\ hcall.tool = name
    /\ Len(results) = hcall.mark
    /\ cpc = "idle"

HandlerRunAsync ==
    AtExecutorCall("run_command_async") /\ \E id \in IDs : RunAsync(id)

HandlerCancelCommand ==
    AtExecutorCall("cancel_command") /\ CancelCommandCheck(hcall.id)

HandlerGetStatus ==
    AtExecutorCall("get_command_status") /\ GetStatus(hcall.id)

\* ExecutorReturned holding RunAsync back until the process has ended
ExecutorReturned_AfterExit ==
    /\ cpc = "idle"
    /\ Len(results) > hcall.mark
    /\ LET r == results[Len(results)]
       IN (r.op = "spawn" /\ r.ret) => proc[r.id] = "exited"

\* the executor's operation has returned to the handler
ExecutorReturned == cpc = "idle" /\ Len(results) > hcall.mark

\* what the handler returns for the executor's answer r
HandlerResult(r) ==
    CASE r.op = "spawn" ->
             IF r.ret
             THEN JSONResult([command_id |-> r.id, status |-> "running"])
             ELSE ErrorResult("exec: not started")
      [] r.op = "cancel" ->
             IF r.ret THEN TextResult("Command cancelled")
             ELSE ErrorResult("command not found or already completed")
      [] r.op = "status" ->
             IF r.found THEN JSONResult([command_id |-> r.id, fields |-> r.snap])
             ELSE ErrorResult("command not found")

\* the handler returns and handleToolsCall sends the response
HandlerReturn ==
    /\ rpc = "handler"
    /\ ExecutorReturned
    /\ output' = Append(output,
           sendResult(input[Len(input)].id, HandlerResult(results[Len(results)])))
    /\ outFrame' = Append(outFrame, Len(input))
    /\ hcall' = NoCall
    /\ rpc' = "scan"
    /\ UNCHANGED <<tools, input, runCtxDone, runErr, invoked, hparams, pcall,
                   avars, svars, evars>>

\* the steps of the dispatch goroutine between a scan and the next
DispatchWork ==
    \/ ServeIterate
    \/ HandlerEnter
    \/ HandlerRunAsync
    \/ HandlerCancelCommand
    \/ CancelCommandCancel
    \/ CancelCommandSet
    \/ HandlerGetStatus
    \/ ReadStatus
    \/ ReadExitCode
    \/ ReadStdout
    \/ ReadStderr
    \/ ReadEndTime
    \/ HandlerReturn

\* the processes and the watcher goroutines (the clock and the processes'
\* output, which only feed the values a status report shows, stand still)
TaskWork ==
    \/ \E id \in IDs, c \in NaturalExits : ProcExit(id, c)
    \/ \E id \in IDs : ProcKill(id)
    \/ \E id \in IDs : WaitReturn(id)
    \/ \E id \in IDs : WriteEndTime(id)
    \/ \E id \in IDs : WriteExitCode(id)
    \/ \E id \in IDs : WriteStatus(id)

NextServe ==
    \/ ServeStart
    \/ \E f \in ServeFrames : ServeScan(f)
    \/ ScanEOF
    \/ CtxCancel
    \/ DispatchWork
    \/ TaskWork

SpecServe == Init /\ [][NextServe]_vars

\* The dispatch goroutine keeps running; nothing makes a process end.
SpecServeFair == SpecServe /\ WF_vars(DispatchWork)

\* ====================================================== handleRunCommand
\* The handler of run_command: it reads its parameters from the arguments
\* of the call, validates the command and runs it with RunSync.
\* A value of the arguments map carries its JSON type and, under a field of
\* its own, its content: val of a string, num of a number, bool of a bool,
\* items of an array, entries of an object. A JSON number n is held as the
\* integer 2n, so that a number with a fraction (1.5 is 3) differs from its
\* integer part; json.Unmarshal decodes every number to a float64.
\* int(n) of a float64: the fraction is dropped, towards zero
IntOf(val) == IF val >= 0 THEN val \div 2 ELSE -((-val) \div 2)

GetIntParam(params, key, required, defaultValue) ==
    IF key \notin DOMAIN params
    THEN IF required
         THEN [val |-> 0, err |-> "missing required parameter"]
         ELSE [val |-> defaultValue, err |-> "nil"]
    ELSE IF params[key].type # "number"
         THEN [val |-> 0, err |-> "parameter must be an integer"]
         ELSE [val |-> IntOf(params[key].num), err |-> "nil"]

GetBoolParam(params, key, defaultValue) ==
    IF key \notin DOMAIN params
    THEN [val |-> defaultValue, err |-> "nil"]
    ELSE IF params[key].type # "bool"
         THEN [val |-> FALSE, err |-> "parameter must be a boolean"]
         ELSE [val |-> params[key].bool, err |-> "nil"]

\* the nil slice and the nil map are the empty function
GetStringArrayParam(params, key, required) ==
    IF key \notin DOMAIN params
    THEN IF required
         THEN [val |-> <<>>, err |-> "missing required parameter"]
         ELSE [val |-> <<>>, err |-> "nil"]
    ELSE IF params[key].type # "array"
         THEN [val |-> <<>>, err |-> "parameter must be an array"]
         ELSE LET arr == params[key].items
              IN IF \E i \in DOMAIN arr : arr[i].type # "string"
                 THEN [val |-> <<>>, err |-> "parameter item must be a string"]
                 ELSE [val |-> [i \in DOMAIN arr |-> arr[i].val],
                       err |-> "nil"]

GetMapParam(params, key, required) ==
    IF key \notin DOMAIN params
    THEN IF required
         THEN [val |-> <<>>, err |-> "missing required parameter"]
         ELSE [val |-> <<>>, err |-> "nil"]
    ELSE IF params[key].type # "object"
         THEN [val |-> <<>>, err |-> "parameter must be an object"]
         ELSE LET m == params[key].entries
              IN IF \E k \in DOMAIN m : m[k].type # "string"
                 THEN [val |-> <<>>, err |-> "parameter entry must be a string"]
                 ELSE [val |-> [k \in DOMAIN m |-> m[k].val], err |-> "nil"]

\* the arguments of the run_command calls: the command alone, and the
\* command with one optional parameter of the right or of another type
RunCommandArguments ==
    LET ls == [type |-> "string", val |-> <<"l", "s">>]
        str(x) == [type |-> "string", val |-> x]
    IN { <<>>,
         [command |-> [type |-> "number", num |-> 2]],
         [command |-> [type |-> "string", val |-> <<"s", "u", "d", "o">>]],
         [command |-> ls] }
       \cup {[command |-> ls, timeout_seconds |-> v] :
                 v \in {[type |-> "number", num |-> 2], str("1")}}
       \cup {[command |-> ls, args |-> v] :
                 v \in {[type |-> "array", items |-> <<str(<<"-", "l">>)>>],
                        str("-l")}}
       \cup {[command |-> ls, cwd |-> v] :
                 v \in {str("/tmp"), [type |-> "number", num |-> 2]}}
       \cup {[command |-> ls, env |-> v] :
                 v \in {[type |-> "object", entries |-> [K |-> str("V")]],
                        str("K=V")}}

\* handleRunCommand up to its call of RunSync: the error it returns ("nil"
\* when it goes on) and the values it passes on
RunCommandParams(params) ==
    LET command == GetStringParam(params, "command", TRUE)
        args == GetStringArrayParam(params, "args", FALSE)
        cwd == GetStringParam(params, "cwd", FALSE)
        env == GetMapParam(params, "env", FALSE)
        timeout == GetIntParam(params, "timeout_seconds", FALSE,
                               DefaultTimeoutSeconds)
    IN [err |-> IF command.err # "nil" THEN command.err
                ELSE ValidateCommand(AllowedCommands, DeniedCommands,
                                     command.val, args.val),
        command |-> command.val, args |-> args.val, cwd |-> cwd.val,
        env |-> env.val, timeout |-> timeout.val]

\* the handler is called and reads its parameters
handleRunCommand(params) ==
    /\ hparams = NoRunCommand
    /\ spc = "idle"
    /\ hparams' = [args |-> params, err |-> RunCommandParams(params).err,
                   result |-> Absent]
    /\ UNCHANGED <<hcall, pcall, svars, evars, avars, dvars>>

\* s.executor.RunSync(ctx, command, args, cwd, env, timeout)
HandlerRunSync ==
    /\ hparams.err = "nil"
    /\ \E d \in BOOLEAN : RunSync(RunCommandParams(hparams.args).timeout, d)

\* return mcp.JSONResult(result)
handleRunCommandReturn ==
    /\ spc = "returned"
    /\ hparams.err = "nil"
    /\ hparams.result = Absent
    /\ hparams' = [hparams EXCEPT !.result = JSONResult(syncResult)]
    /\ UNCHANGED <<hcall, pcall, svars, evars, avars, dvars>>

NextRunCommand ==
    \/ \E a \in RunCommandArguments : handleRunCommand(a)
    \/ HandlerRunSync
    \/ SyncTick
    \/ DeadlineExpires
    \/ ParentCancel
    \/ \E l \in BOOLEAN : CmdStart(l)
    \/ \E s \in Streams, b \in Bytes : SyncProcWrite(s, b)
    \/ \E c \in NaturalExits : SyncProcExit(c)
    \/ SyncProcKill
    \/ OrphanCloses
    \/ CmdRunReturn
    \/ RunSyncReturn
    \/ handleRunCommandReturn

SpecRunCommand == Init /\ [][NextRunCommand]_vars

\* ============================== the helpers: accessors and the validator
\* The accessors of pkg/mcp, called as the handlers call them: on the
\* decoded arguments of a call, for the key "p"; and ValidateCommand, called
\* for validators with various lists.
ParamValues ==
    LET str(x) == [type |-> "string", val |-> x]
        num(n) == [type |-> "number", num |-> n]
    IN {str("a"), str(""), [type |-> "null"],
        [type |-> "bool", bool |-> TRUE], [type |-> "bool", bool |-> FALSE],
        [type |-> "array", items |-> <<>>],
        [type |-> "array", items |-> <<str("a"), str("b")>>],
        [type |-> "array", items |-> <<str("a"), num(2)>>],
        [type |-> "object", entries |-> <<>>],
        [type |-> "object", entries |-> [K |-> str("V")]],
        [type |-> "object", entries |-> [K |-> num(2)]]}
       \cup {num(n) : n \in {-20, -3, 0, 1, 2, 3, 84}}

\* One helper is called in a run. def: the default the accessor was given,
\* if it takes one, else 0
CallGetStringParam(params, required) ==
    /\ pcall.fn = "none"
    /\ pcall' = [fn |-> "GetStringParam", args |-> params,
                 required |-> required, def |-> 0,
                 ret |-> GetStringParam(params, "p", required)]
    /\ UNCHANGED <<hcall, hparams, svars, evars, avars, dvars>>

CallGetIntParam(params, required, defaultValue) ==
    /\ pcall.fn = "none"
    /\ pcall' = [fn |-> "GetIntParam", args |-> params,
                 required |-> required, def |-> defaultValue,
                 ret |-> GetIntParam(params, "p", required, defaultValue)]
    /\ UNCHANGED <<hcall, hparams, svars, evars, avars, dvars>>

CallGetBoolParam(params, defaultValue) ==
    /\ pcall.fn = "none"
    /\ pcall' = [fn |-> "GetBoolParam", args |-> params,
                 required |-> FALSE, def |-> IF defaultValue THEN 1 ELSE 0,
                 ret |-> GetBoolParam(params, "p", defaultValue)]
    /\ UNCHANGED <<hcall, hparams, svars, evars, avars, dvars>>

CallGetStringArrayParam(params, required) ==
    /\ pcall.fn = "none"
    /\ pcall' = [fn |-> "GetStringArrayParam", args |-> params,
                 required |-> required, def |-> 0,
                 ret |-> GetStringArrayParam(params, "p", required)]
    /\ UNCHANGED <<hcall, hparams, svars, evars, avars, dvars>>

CallGetMapParam(params, required) ==
    /\ pcall.fn = "none"
    /\ pcall' = [fn |-> "GetMapParam", args |-> params,
                 required |-> required, def |-> 0,
                 ret |-> GetMapParam(params, "p", required)]
    /\ UNCHANGED <<hcall, hparams, svars, evars, avars, dvars>>

CallValidateCommand(allowed, denied, command, args) ==
    /\ pcall.fn = "none"
    /\ pcall' = [fn |-> "ValidateCommand",
                 args |-> [allowed |-> allowed, denied |-> denied,
                           command |-> command, args |-> args],
                 required |-> FALSE, def |-> 0,
                 ret |-> [val |-> "",
                          err |-> ValidateCommand(allowed, denied, command,
                                                  args)]]
    /\ UNCHANGED <<hcall, hparams, svars, evars, avars, dvars>>

\* a helper is called: an accessor on a map with or without the key, or a
\* validator made with some lists on a command and its arguments
NextParams ==
    LET ParamMaps == {<<>>} \cup {[p |-> v] : v \in ParamValues}
        ValidatorLists ==
            {<<>>, <<<<"l", "s">>>>, <<<<"r", "m">>, <<"l", "s">>>>,
             <<<<"s", "u", "d", "o">>>>, DeniedCommands}
        CommandWords ==
            {<<>>, <<"l", "s">>, <<"l", "s", "o", "f">>,
             <<"r", "m">>, <<"s", "u", "d", "o">>,
             <<"s", "u">>, <<"d", "o">>, <<"-", "r", "f">>,
             <<"/">>}
        ArgLists == {<<>>} \cup {<<w>> : w \in CommandWords \ {<<>>}}
                           \cup {<<<<"-", "r", "f">>, <<"/">>>>}
    IN \/ \E al \in ValidatorLists, de \in ValidatorLists,
             c \in CommandWords, as \in ArgLists :
              CallValidateCommand(al, de, c, as)
       \/ \E a \in ParamMaps, r \in BOOLEAN : CallGetStringParam(a, r)
       \/ \E a \in ParamMaps, r \in BOOLEAN, d \in {0, 1, 100} :
              CallGetIntParam(a, r, d)
       \/ \E a \in ParamMaps, d \in BOOLEAN : CallGetBoolParam(a, d)
       \/ \E a \in ParamMaps, r \in BOOLEAN : CallGetStringArrayParam(a, r)
       \/ \E a \in ParamMaps, r \in BOOLEAN : CallGetMapParam(a, r)

SpecParams == Init /\ [][NextParams]_vars

\* ============================================ internal/environment tools
\* Variable names are sequences of characters, values are opaque strings.
\* EnvironmentConfig of the default config. Each denied pattern has the form
\* .*X$, which regexp.MatchString finds exactly in a name that ends with X,
\* and is held as its X; the list is not empty, so isSensitive never falls
\* back on its built-in list.
ExposeAllEnv == FALSE
AllowedEnvPrefixes ==
    << <<"P","A","T","H">>, <<"H","O","M","E">>, <<"U","S","E","R">>,
       <<"G","O","P","A","T","H">>, <<"N","O","D","E","_">>,
       <<"N","P","M","_">> >>
DeniedEnvPatterns ==
    << <<"_","K","E","Y">>, <<"_","S","E","C","R","E","T">>,
       <<"_","T","O","K","E","N">>,
       <<"_","P","A","S","S","W","O","R","D">> >>

\* os.Environ(), each "NAME=value" split at its first "="; the server never
\* changes the environment of its process
Environ ==
    << [name |-> <<"H","O","M","E">>, value |-> "/root"],
       [name |-> <<"A","_","K","E","Y">>, value |-> "k1"],
       [name |-> <<"T","Z">>, value |-> "UTC"] >>

isSensitive(name) ==
    \E i \in DOMAIN DeniedEnvPatterns :
        LET x == DeniedEnvPatterns[i]
        IN /\ Len(x) <= Len(name)
           /\ SubSeq(name, Len(name) - Len(x) + 1, Len(name)) = x

isAllowed(name) ==
    \/ ExposeAllEnv
    \/ \E i \in DOMAIN AllowedEnvPrefixes :
           HasPrefix(name, AllowedEnvPrefixes[i])

\* What a handler returns: an error, or the members of its JSON result, the
\* members a result does not have being at their zero values.
EnvResult ==
    [err |-> "nil", value |-> "", exists |-> FALSE, filtered |-> FALSE,
     set |-> FALSE, unset |-> FALSE, error |-> "", variables |-> <<>>,
     filtered_count |-> 0]

\* handleGetEnv looking the name up in the process environment first
handleGetEnv_ProcessFirst(params) ==
    LET name == GetStringParam(params, "name", TRUE)
        seen == {i \in DOMAIN Environ : Environ[i].name = name.val}
        ret ==
            IF name.err # "nil" THEN [EnvResult EXCEPT !.err = name.err]
            ELSE IF isSensitive(name.val) \/ ~isAllowed(name.val)
            THEN [EnvResult EXCEPT !.filtered = TRUE]
            ELSE IF seen # {}
            THEN [EnvResult EXCEPT !.value = Environ[CHOOSE i \in seen : TRUE].value,
                                   !.exists = TRUE]
            ELSE IF name.val \in DOMAIN sessionEnv
            THEN [EnvResult EXCEPT !.value = sessionEnv[name.val],
                                   !.exists = TRUE]
            ELSE EnvResult
    IN /\ Len(elog) < MaxEnvCalls
       /\ elog' = Append(elog, [op |-> "get_env", args |-> params, ret |-> ret])
       /\ UNCHANGED <<sessionEnv, svars, hvars, avars, dvars>>

handleGetEnv(params) ==
    LET name == GetStringParam(params, "name", TRUE)
        seen == {i \in DOMAIN Environ : Environ[i].name = name.val}
        ret ==
            IF name.err # "nil" THEN [EnvResult EXCEPT !.err = name.err]
            ELSE IF isSensitive(name.val)
            THEN [EnvResult EXCEPT !.filtered = TRUE]
            ELSE IF ~isAllowed(name.val)
            THEN [EnvResult EXCEPT !.filtered = TRUE]
            ELSE IF name.val \in DOMAIN sessionEnv
            THEN [EnvResult EXCEPT !.value = sessionEnv[name.val],
                                   !.exists = TRUE]
            ELSE IF seen # {}
            THEN [EnvResult EXCEPT !.value = Environ[CHOOSE i \in seen : TRUE].value,
                                   !.exists = TRUE]
            ELSE EnvResult
    IN /\ Len(elog) < MaxEnvCalls
       /\ elog' = Append(elog, [op |-> "get_env", args |-> params, ret |-> ret])
       /\ UNCHANGED <<sessionEnv, svars, hvars, avars, dvars>>

handleSetEnv(params) ==
    LET name == GetStringParam(params, "name", TRUE)
        value == GetStringParam(params, "value", TRUE)
    IN /\ Len(elog) < MaxEnvCalls
       /\ IF name.err # "nil"
          THEN /\ elog' = Append(elog, [op |-> "set_env", args |-> params,
                             ret |-> [EnvResult EXCEPT !.err = name.err]])
               /\ UNCHANGED sessionEnv
          ELSE IF value.err # "nil"
          THEN /\ elog' = Append(elog, [op |-> "set_env", args |-> params,
                             ret |-> [EnvResult EXCEPT !.err = value.err]])
               /\ UNCHANGED sessionEnv
          ELSE /\ sessionEnv' =
                     [n \in DOMAIN sessionEnv \cup {name.val} |->
                         IF n = name.val THEN value.val ELSE sessionEnv[n]]
               /\ elog' = Append(elog, [op |-> "set_env", args |-> params,
                             ret |-> [EnvResult EXCEPT !.value = value.val,
                                                       !.set = TRUE]])
       /\ UNCHANGED <<svars, hvars, avars, dvars>>

\* The process environment in its order, then the session store in the order
\* the map iteration happens to take.
handleListEnv(params) ==
    LET p == GetStringParam(params, "filter_prefix", FALSE)
        filterPrefix ==
            IF "filter_prefix" \in DOMAIN params /\ p.err = "nil"
            THEN p.val ELSE <<>>
        wanted(name) == filterPrefix = <<>> \/ HasPrefix(name, filterPrefix)
        hidden(name) ==
            isSensitive(name) \/ (~ExposeAllEnv /\ ~isAllowed(name))
        shown(e) == wanted(e.name) /\ ~hidden(e.name)
        dropped(e) == wanted(e.name) /\ hidden(e.name)
        session == {n \in DOMAIN sessionEnv : wanted(n)}
    IN /\ Len(elog) < MaxEnvCalls
       /\ \E order \in [1..Cardinality(session) -> session] :
             /\ \A i, j \in DOMAIN order : order[i] = order[j] => i = j
             /\ elog' = Append(elog,
                   [op |-> "list_env", args |-> params,
                    ret |-> [EnvResult EXCEPT
                       !.variables =
                           SelectSeq(Environ, shown)
                           \o [i \in DOMAIN order |->
                                  [name |-> order[i],
                                   value |-> sessionEnv[order[i]]]],
                       !.filtered_count = Len(SelectSeq(Environ, dropped))]])
       /\ UNCHANGED <<sessionEnv, svars, hvars, avars, dvars>>

handleUnsetEnv(params) ==
    LET name == GetStringParam(params, "name", TRUE)
    IN /\ Len(elog) < MaxEnvCalls
       /\ IF name.err # "nil"
          THEN /\ elog' = Append(elog, [op |-> "unset_env", args |-> params,
                             ret |-> [EnvResult EXCEPT !.err = name.err]])
               /\ UNCHANGED sessionEnv
          ELSE IF name.val \in DOMAIN sessionEnv
          THEN /\ sessionEnv' = [n \in DOMAIN sessionEnv \ {name.val} |->
                                    sessionEnv[n]]
               /\ elog' = Append(elog, [op |-> "unset_env", args |-> params,
                             ret |-> [EnvResult EXCEPT !.unset = TRUE]])
          ELSE /\ elog' = Append(elog, [op |-> "unset_env", args |-> params,
                             ret |-> [EnvResult EXCEPT
                                 !.error = "variable not set in session"]])
               /\ UNCHANGED sessionEnv
       /\ UNCHANGED <<svars, hvars, avars, dvars>>

\* the environment tools are called one after the other, on any arguments
NextEnv ==
    LET str(x) == [type |-> "string", val |-> x]
        Names == {<<"H","O","M","E">>, <<"A","_","K","E","Y">>, <<"T","Z">>}
        Named == {<<>>} \cup {[name |-> str(n)] : n \in Names}
        Valued == {[name |-> str(<<"T","Z">>)]}
                  \cup {[name |-> str(n), value |-> str(v)] :
                           n \in Names, v \in {"v", "w"}}
        Listing == {<<>>, [filter_prefix |-> str(<<"H","O">>)],
                    [filter_prefix |-> [type |-> "null"]]}
    IN \/ \E a \in Named : handleGetEnv(a)
       \/ \E a \in Valued : handleSetEnv(a)
       \/ \E a \in Listing : handleListEnv(a)
       \/ \E a \in Named : handleUnsetEnv(a)

SpecEnv == Init /\ [][NextEnv]_vars

SpecAsync == Init /\ [][NextAsync]_vars

\* The race between CancelCommand and the watcher on its own: every step that
\* reads or writes Status, without the status polls, the clock and the
\* output, none of which writes Status or is read by CancelCommand.
NextCancel ==
    \/ \E id \in IDs : RunAsync(id)
    \/ \E id \in IDs, c \in NaturalExits : ProcExit(id, c)
    \/ \E id \in IDs : ProcKill(id)
    \/ \E id \in IDs : WaitReturn(id)
    \/ \E id \in IDs : WriteEndTime(id)
    \/ \E id \in IDs : WriteExitCode(id)
    \/ \E id \in IDs : WriteStatus(id)
    \/ \E id \in CallIds : CancelCommandCheck(id)
    \/ CancelCommandCancel
    \/ CancelCommandSet

SpecCancel == Init /\ [][NextCancel]_vars

\* The Go scheduler lets every watcher goroutine run: cmd.Wait() returns once
\* the process has ended and each write of the watcher follows.
WatcherFair ==
    \A id \in IDs :
        /\ WF_vars(WaitReturn(id))
        /\ WF_vars(WriteEndTime(id))
        /\ WF_vars(WriteExitCode(id))
        /\ WF_vars(WriteStatus(id))

SpecCancelFair == SpecCancel /\ WatcherFair

\* the same scheduling with the status polls, the clock and the output
SpecAsyncFair == SpecAsync /\ WatcherFair

SpecSync == Init /\ [][NextSync]_vars

\* Time passes, the timer fires, exec kills and reaps the subprocess, and
\* the goroutine in RunSync keeps running. Nothing makes a subprocess or
\* its descendants end of their own accord.
SpecSyncFair ==
    /\ SpecSync
    /\ WF_vars(SyncTick)
    /\ WF_vars(DeadlineExpires)
    /\ WF_vars(\E l \in BOOLEAN : CmdStart(l))
    /\ WF_vars(SyncProcKill)
    /\ WF_vars(CmdRunReturn)
    /\ WF_vars(RunSyncReturn)

\* ================================================ the async task claims
CancelCalls(id) ==
    {i \in DOMAIN results : results[i].op = "cancel" /\ results[i].id = id}

StatusPolls(id) ==
    {i \in DOMAIN results :
        results[i].op = "status" /\ results[i].id = id /\ results[i].found}

\* C1: once a task's Status is completed, failed or cancelled, no step of
\* the watcher or of CancelCommand changes it.
C1_StatusForwardOnly ==
    [][\A id \in Stored :
          Field(id, "Status") \in Terminal
              => asyncCommands'[id].Status = Field(id, "Status")]_vars

\* C2: after a CancelCommand(id) that returned true, every later status
\* poll of id reports cancelled.
C2_CancelledStaysCancelled ==
    \A id \in IDs : \A i \in CancelCalls(id), j \in StatusPolls(id) :
        (i < j /\ results[i].ret) => results[j].snap.status = "cancelled"

\* C3: a status report with a terminal status carries an end time that was
\* set (it reports duration_ms) and an exit code the terminal transition wrote.
C3_NoPartialRecord ==
    \A id \in IDs : \A j \in StatusPolls(id) :
        results[j].snap.status \in Terminal
            => /\ results[j].snap.dur_key = "duration_ms"
               /\ results[j].codeSet

\* C4: two status polls of a task, both begun after the task became
\* terminal, return the same snapshot.
C4_TerminalSnapshotsEqual ==
    \A id \in IDs : \A i \in StatusPolls(id), j \in StatusPolls(id) :
        (i < j /\ results[i].terminal /\ results[j].terminal)
            => results[i].snap = results[j].snap

\* C5: of the CancelCommand calls for one id only the first can return true,
\* and it returns true exactly when it finds the task running.
C5_CancelTrueOnce ==
    \A id \in IDs : \A j \in CancelCalls(id) :
        IF \A i \in CancelCalls(id) : j <= i
        THEN results[j].ret = results[j].running
        ELSE ~results[j].ret

\* C5 witness: a first cancel that returned true and a second that returned
\* false, for the same task.
C5_Witness ==
    \E id \in IDs : \E i \in CancelCalls(id), j \in CancelCalls(id) :
        i < j /\ results[i].ret /\ results[i].running /\ ~results[j].ret

\* C6: no reader or canceller is inside its access to a record while the
\* record's watcher is between its first and its last write.
CallerInRecord(id) ==
    /\ cid = id
    /\ cpc \in {"s_status", "s_code", "s_out", "s_err", "s_end",
                 "c_cancel", "c_set"}

WatcherMidUpdate(id) == wpc[id] \in {"w_code", "w_status"}

C6_RecordAccessExclusive ==
    \A id \in IDs : ~(CallerInRecord(id) /\ WatcherMidUpdate(id))

\* ================================================== the dispatcher claims
\* A frame expects a response unless it is empty or carries the notification
\* method (spec 4.1, 4.2).
ExpectsResponse(f) ==
    /\ f.kind # "empty"
    /\ ~(f.kind = "request" /\ f.method = "notifications/initialized")

\* The last frame read is still to be handled, or was never handled because
\* Run returned on it with an error.
LastFrameUnhandled ==
    rpc = "select" \/ (rpc = "returned" /\ runErr # "nil")

Handled == IF LastFrameUnhandled THEN Len(input) - 1 ELSE Len(input)

ExpectingFrames ==
    LET keep(i) == ExpectsResponse(input[i])
    IN SelectSeq([i \in 1..Handled |-> i], keep)

\* the step of Run that runs the loop body on the frame just read
BodyStep == rpc = "select" /\ ~runCtxDone /\ rpc' # "select"

LastFrame == input[Len(input)]

IsCall(f) ==
    f.kind = "request" /\ f.method = "tools/call" /\ f.params.shape = "call"

\* C7: the output holds exactly one response for each handled frame that
\* expects one and none for the others, in the arrival order of the frames.
C7_OneResponsePerFrameInOrder == outFrame = ExpectingFrames

\* C7 witness: Run has ended on a mixed input of three frames, a malformed
\* one, a notification and a request, and has written two responses.
C7_Witness ==
    /\ rpc = "returned" /\ runErr = "nil"
    /\ Len(input) = 3
    /\ input[1].kind = "garbage"
    /\ input[2].kind = "request"
    /\ input[2].method = "notifications/initialized"
    /\ input[3].kind = "request" /\ input[3].method = "tools/list"
    /\ outFrame = <<1, 3>>

\* the frame is a tools/call of a registered tool whose handler returns an error
HandlerFails(f) ==
    /\ IsCall(f)
    /\ f.params.name \in DOMAIN tools
    /\ CallHandler(tools[f.params.name], f.params.arguments).err # "nil"

FlaggedResult(r, id) ==
    /\ r.jsonrpc = "2.0"
    /\ r.id = id
    /\ r.error = Absent
    /\ r.result # Absent
    /\ r.result.isError = TRUE
    /\ Len(r.result.content) = 1
    /\ r.result.content[1].type = "text"

\* C8: the loop body, run on a call whose handler returns an error, writes
\* one response: a result flagged isError with a text block, no error member.
C8_HandlerErrorIsFlaggedResult ==
    [][(BodyStep /\ HandlerFails(LastFrame))
         => /\ Len(output') = Len(output) + 1
            /\ SubSeq(output', 1, Len(output)) = output
            /\ FlaggedResult(output'[Len(output')], LastFrame.id)]_vars

\* C8 witness: a cancel_command call without its command_id was answered
\* with a flagged result.
C8_Witness ==
    /\ rpc = "scan"
    /\ Len(input) > 0
    /\ HandlerFails(LastFrame)
    /\ LastFrame.params.arguments = <<>>
    /\ Len(output) > 0
    /\ FlaggedResult(output[Len(output)], LastFrame.id)
    /\ output[Len(output)].result.content[1].text = "missing required parameter"

\* the frame is a tools/call that names a tool the registry does not hold
UnknownTool(f) == IsCall(f) /\ f.params.name \notin DOMAIN tools

UnknownToolError(r, f) ==
    /\ r.jsonrpc = "2.0"
    /\ r.id = f.id
    /\ r.result = Absent
    /\ r.error # Absent
    /\ r.error.code = -32602
    /\ r.error.message = "Unknown tool"

\* C9: the loop body, run on a call of an unregistered tool, writes one
\* "Unknown tool" error (-32602) with the request id, calls no handler, and
\* leaves Run at its next Scan.
C9_UnknownToolIsProtocolError ==
    [][(BodyStep /\ UnknownTool(LastFrame))
         => /\ Len(output') = Len(output) + 1
            /\ SubSeq(output', 1, Len(output)) = output
            /\ UnknownToolError(output'[Len(output')], LastFrame)
            /\ invoked' = invoked
            /\ rpc' = "scan"]_vars

\* C9 witness: an unknown-tool call was answered and a later frame was read.
C9_Witness ==
    /\ Len(input) >= 2
    /\ UnknownTool(input[1])
    /\ Len(output) >= 1
    /\ UnknownToolError(output[1], input[1])
    /\ invoked = <<>>
    /\ rpc = "select"

ParseError(r) ==
    /\ r.jsonrpc = "2.0"
    /\ r.id = NullId
    /\ r.result = Absent
    /\ r.error # Absent
    /\ r.error.code = -32700

\* C10: the loop body never ends the loop, whatever the frame holds, and on
\* a frame that is no request envelope it writes one parse error (-32700,
\* null id).
C10_ParseErrorAndContinue ==
    [][BodyStep
         => /\ rpc' = "scan"
            /\ runErr' = runErr
            /\ LastFrame.kind = "garbage"
                  => /\ Len(output') = Len(output) + 1
                     /\ SubSeq(output', 1, Len(output)) = output
                     /\ ParseError(output'[Len(output')])]_vars

\* C10 witness: a malformed frame got its parse error and the frame after
\* it was handled too.
C10_Witness ==
    /\ Len(input) >= 2
    /\ Handled >= 2
    /\ input[1].kind = "garbage"
    /\ input[2].kind = "request" /\ input[2].method = "initialize"
    /\ Len(output) >= 2
    /\ ParseError(output[1])
    /\ outFrame[2] = 2

\* ================================================== the RunSync claims
\* the text is the timeout marker, whole or cut at the output limit
CarriesTimeoutMarker(str) == str = TimedOutText \/ str = Truncate(TimedOutText)

\* C11: a RunSync whose subprocess was still running at the deadline and
\* was killed for it returns a result whose Stderr is the timeout marker
\* "command timed out" and whose exit code is -1.
C11_DeadlineKillReportsTimeout ==
    (spc = "returned" /\ killedOn = "deadline")
        => /\ CarriesTimeoutMarker(syncResult.Stderr)
           /\ syncResult.ExitCode = -1

\* C12: every RunSync call eventually returns.
C12_RunSyncReturns == (spc = "start") ~> (spc = "returned")

\* ret is str as the claim has it returned: its first MaxOutputSizeBytes
\* bytes and one marker when it is longer than that, itself otherwise
ReturnedTruncated(ret, str) ==
    IF Len(str) > MaxOutputSizeBytes
    THEN /\ Len(ret) = MaxOutputSizeBytes + Len(TruncatedText)
         /\ \A i \in 1..MaxOutputSizeBytes : ret[i] = str[i]
         /\ \A i \in 1..Len(TruncatedText) :
                ret[MaxOutputSizeBytes + i] = TruncatedText[i]
    ELSE ret = str

\* C13: in the result of RunSync, Stdout is the captured stdout and Stderr
\* is the stderr text of the result (the captured stderr, or the error text
\* that took its place), each cut on its own: longer than MaxOutputSizeBytes,
\* its first MaxOutputSizeBytes bytes and one marker; otherwise unchanged.
C13_StreamsTruncatedIndependently ==
    spc = "returned"
        => /\ ReturnedTruncated(syncResult.Stdout, captured["Stdout"])
           /\ ReturnedTruncated(syncResult.Stderr, ResultStderr)

\* C13 witness: a run whose stdout went over the limit and whose stderr
\* stayed at the limit returned the one cut and marked, the other as it was.
C13_Witness ==
    /\ spc = "returned"
    /\ runerr = "nil"
    /\ Len(captured["Stdout"]) > MaxOutputSizeBytes
    /\ Len(captured["Stderr"]) = MaxOutputSizeBytes
    /\ Len(syncResult.Stdout) = MaxOutputSizeBytes + Len(TruncatedText)
    /\ syncResult.Stderr = captured["Stderr"]

\* ======================================= the async task claims, continued
\* CancelCommand(id) has been called: it is running or has returned
CancelInvoked(id) ==
    \/ cid = id /\ cpc \in {"c_cancel", "c_set"}
    \/ CancelCalls(id) # {}

SpawnReturns(ok) ==
    /\ Len(results') = Len(results) + 1
    /\ results'[Len(results')].op = "spawn"
    /\ results'[Len(results')].ret = ok

SpawnedId == results'[Len(results')].id

\* the step is handleGetCommandStatus's read of Status
StatusRead == cpc = "s_status" /\ cpc' = "s_code"

\* C15: RunAsync, when it returns an id, has stored one new record under an
\* id that names no other task and was never handed out, with the start time
\* and Status running, and has left the process running, to its watcher; and
\* a status poll that reads Status while the process is still running and
\* no cancel of the task was called reads running.
C15_SpawnReturnsRunning ==
    [][/\ SpawnReturns(TRUE)
           => /\ SpawnedId \notin Stored
              /\ SpawnedId \notin uuids
              /\ DOMAIN asyncCommands' = Stored \cup {SpawnedId}
              /\ \A o \in Stored : asyncCommands'[o] = asyncCommands[o]
              /\ asyncCommands'[SpawnedId].ID = SpawnedId
              /\ asyncCommands'[SpawnedId].Status = "running"
              /\ asyncCommands'[SpawnedId].StartTime = now
              /\ asyncCommands'[SpawnedId].StartTime # ZeroTime
              /\ proc'[SpawnedId] = "running"
              /\ wpc'[SpawnedId] = "wait"
       /\ (StatusRead /\ proc[cid] = "running" /\ ~CancelInvoked(cid))
           => snap'.status = "running"]_vars

\* C15 witness: a poll that followed the spawn of a task has reported
\* running, and the process of the task is running still.
C15_Witness ==
    \E id \in Stored : \E j \in StatusPolls(id) :
        /\ \E i \in DOMAIN results :
               i < j /\ results[i] = [op |-> "spawn", id |-> id, ret |-> TRUE,
                                      status |-> "running"]
        /\ results[j].snap.status = "running"
        /\ proc[id] = "running"
        /\ ~CancelInvoked(id)

\* the ids of the RunAsync calls that returned an error
FailedSpawns ==
    {results[i].id : i \in {j \in DOMAIN results :
                              results[j].op = "spawn" /\ ~results[j].ret}}

\* no call with the id has found a task: every status call "not found",
\* every cancel false
NeverResolved(id) ==
    \A i \in DOMAIN results :
        (results[i].op # "spawn" /\ results[i].id = id)
            => IF results[i].op = "status" THEN ~results[i].found
               ELSE ~results[i].ret

\* C16: a RunAsync that returns an error leaves the task table, the
\* processes and the watchers as they were, and from then on its id names
\* no record, has no watcher, and no GetStatus or CancelCommand resolves it.
C16_FailedStartStoresNothing ==
    [][/\ SpawnReturns(FALSE)
           => /\ asyncCommands' = asyncCommands
              /\ wpc' = wpc
              /\ proc' = proc
       /\ \A id \in FailedSpawns' :
              /\ id \notin DOMAIN asyncCommands'
              /\ wpc'[id] = "none"
              /\ proc'[id] = "none"
              /\ NeverResolved(id)']_vars

\* C16 witness: after a RunAsync that failed, a status call and a cancel
\* for the id of that attempt have both come back empty-handed.
C16_Witness ==
    \E id \in FailedSpawns :
        /\ id \notin Stored
        /\ \E i \in DOMAIN results :
               results[i].op = "status" /\ results[i].id = id /\ ~results[i].found
        /\ \E i \in CancelCalls(id) : ~results[i].ret

\* the step is CancelCommand(id) returning false
CancelRefused(id) ==
    /\ cpc = "idle"
    /\ Len(results') = Len(results) + 1
    /\ results'[Len(results')].op = "cancel"
    /\ results'[Len(results')].id = id
    /\ ~results'[Len(results')].ret

\* the step is CancelCommand(id) going on to cancel, which returns true
CancelProceeds(id) == cpc = "idle" /\ cpc' = "c_cancel" /\ cid' = id

\* C17: CancelCommand(id), finding no task under id or a task whose Status
\* is completed, failed or cancelled, returns false; and a CancelCommand that
\* returns false changes no field of any task and does not call Cancel.
C17_RefusedCancelIsNoOp ==
    [][\A id \in IDs \cup {UnknownId} :
          /\ ((CancelRefused(id) \/ CancelProceeds(id))
                 /\ (id \notin Stored \/ Field(id, "Status") \in Terminal))
                => CancelRefused(id)
          /\ CancelRefused(id)
                => /\ asyncCommands' = asyncCommands
                   /\ ctxDone' = ctxDone
                   /\ proc' = proc
                   /\ wpc' = wpc]_vars

\* C17 witness: a cancel of an unknown id and a cancel of a completed task
\* were both refused, and the completed task is as its watcher left it.
C17_Witness ==
    /\ \E i \in CancelCalls(UnknownId) : ~results[i].ret
    /\ \E id \in Stored : \E i \in CancelCalls(id) :
           /\ ~results[i].ret
           /\ \A j \in CancelCalls(id) : ~results[j].ret
           /\ wpc[id] = "done"
           /\ Field(id, "Status") = "completed"
           /\ ~ctxDone[id]

\* ================================ the claims on the loop and the tasks
\* C18: a task whose Status reads cancelled is a task CancelCommand was
\* called for: no cancellation of Run's context, no end of the loop and no
\* exit of the process puts cancelled into a record.
C18_CancelledOnlyByCancel ==
    \A id \in Stored : Field(id, "Status") = "cancelled" => CancelInvoked(id)

\* C18 witness: Run's context is cancelled and the loop has ended, with one
\* task cancelled by a cancel_command call and killed, its watcher done.
C18_Witness ==
    /\ runCtxDone
    /\ rpc = "returned"
    /\ \E id \in Stored :
           /\ \E i \in CancelCalls(id) : results[i].ret
           /\ procExit[id] = SignalExit
           /\ wpc[id] = "done"

\* C19: whatever the spawned tasks do, and even when none of them ever
\* ends, the dispatch goroutine answers the frame it has read and is back at
\* its scan (or has returned); the response of run_command_async among them.
C19_TasksNeverBlockLoop == (rpc \in {"select", "handler"}) ~> (rpc \in {"scan", "returned"})

\* output line i is the response of a run_command_async that spawned a task
SpawnResponse(i) ==
    /\ ExecutorCall(input[outFrame[i]])
    /\ input[outFrame[i]].params.name = "run_command_async"
    /\ output[i].result # Absent
    /\ ~output[i].result.isError

\* C19 witness: with a task's process still running, the loop has written
\* the response of its run_command_async and the response of a later frame.
C19_Witness ==
    \E id \in Stored :
        /\ proc[id] = "running"
        /\ rpc = "scan"
        /\ Len(output) >= 2
        /\ SpawnResponse(1)
        /\ outFrame[2] > outFrame[1]

\* the step is a step of a watcher goroutine
WatcherStep == \E id \in IDs : wpc[id] # "none" /\ wpc'[id] # wpc[id]

\* the step writes the Status of a stored task
StatusWritten ==
    \E id \in Stored : asyncCommands'[id].Status # asyncCommands[id].Status

\* C20: a step of a watcher, and any step that writes a task's Status,
\* writes nothing to the output; a step that does write to the output is the
\* dispatch goroutine's, appending one response, with the id of the frame it
\* has just read, and going back to its scan.
C20_StatusChangesAreNotPushed ==
    [][/\ (WatcherStep \/ StatusWritten)
            => (output' = output /\ outFrame' = outFrame)
       /\ output' # output
            => /\ rpc \in {"select", "handler"}
               /\ rpc' = "scan"
               /\ output' = Append(output, output'[Len(output')])
               /\ outFrame' = Append(outFrame, Len(input))
               /\ output'[Len(output')].id =
                     UnmarshalRequest(LastFrame).req.ID]_vars

\* C20 witness: a task failed and its watcher wrote the status, with nothing
\* written to the output for it; the one line after the spawn's response is
\* the response of the get_command_status that then reported the failure.
C20_Witness ==
    /\ rpc = "scan"
    /\ Len(output) = 2
    /\ Len(input) = 2
    /\ SpawnResponse(1)
    /\ ExecutorCall(input[2])
    /\ input[2].params.name = "get_command_status"
    /\ results[Len(results)].op = "status"
    /\ results[Len(results)].found
    /\ results[Len(results)].snap.status = "failed"
    /\ \E id \in Stored : wpc[id] = "done"

\* ------------------------------------------------------------ C21 .. C30
\* the id a response to frame f carries: the request's, null when the frame
\* could not be decoded
AnsweredId(f) == IF f.kind = "request" THEN f.id ELSE NullId

Envelope(r, f) ==
    /\ DOMAIN r = {"jsonrpc", "id", "result", "error"}
    /\ r.jsonrpc = "2.0"
    /\ r.id = AnsweredId(f)
    /\ (r.result = Absent) # (r.error = Absent)

\* C21: every line of the output is a response envelope with the version
\* tag, the id of the frame it answers (null for a parse error) and exactly
\* one of result and error.
C21_EveryLineIsOneEnvelope ==
    \A i \in DOMAIN output : Envelope(output[i], input[outFrame[i]])

\* C21 witness: three lines were written, a parse error with a null id, a
\* protocol error with the request's id and a result with the request's id.
C21_Witness ==
    /\ Len(output) = 3
    /\ input[1].kind = "garbage" /\ output[1].error.code = -32700
    /\ input[2].kind = "request" /\ input[2].id # NullId
    /\ output[2].error # Absent /\ output[2].error.code = -32601
    /\ input[3].kind = "request" /\ input[3].id # NullId
    /\ output[3].result # Absent

KnownMethods ==
    {"initialize", "tools/list", "tools/call", "notifications/initialized"}

UnknownMethod(f) == f.kind = "request" /\ f.method \notin KnownMethods

\* C22: the loop body, run on a request of any other method, appends one
\* response, the protocol error -32601 with the request's id and no result,
\* and invokes no tool handler.
C22_UnknownMethodIsProtocolError ==
    [][(BodyStep /\ UnknownMethod(LastFrame))
         => /\ Len(output') = Len(output) + 1
            /\ SubSeq(output', 1, Len(output)) = output
            /\ output'[Len(output')].id = LastFrame.id
            /\ output'[Len(output')].result = Absent
            /\ output'[Len(output')].error # Absent
            /\ output'[Len(output')].error.code = -32601
            /\ output'[Len(output')].error.message = "Method not found"
            /\ invoked' = invoked]_vars

\* C22 witness: a request with an id and an unknown method was answered with
\* the protocol error, no handler having been invoked for it.
C22_Witness ==
    /\ rpc = "scan"
    /\ Len(input) > 0
    /\ UnknownMethod(LastFrame)
    /\ LastFrame.id # NullId
    /\ Len(output) > 0
    /\ outFrame[Len(outFrame)] = Len(input)
    /\ output[Len(output)].error # Absent
    /\ output[Len(output)].error.code = -32601
    /\ \A i \in DOMAIN invoked : invoked[i][1] # Len(input)

\* the frames that expect no response
Silent(f) == f.kind \in {"empty", "request"} /\ ~ExpectsResponse(f)

\* C23: the loop body, run on an empty frame or on the notification, writes
\* nothing, invokes nothing, leaves the registry, the tasks and Run's context
\* and error alone, and goes back to scanning.
C23_SilentFramesChangeNothing ==
    [][(BodyStep /\ Silent(LastFrame))
         => /\ output' = output
            /\ outFrame' = outFrame
            /\ invoked' = invoked
            /\ tools' = tools
            /\ runCtxDone' = runCtxDone
            /\ runErr' = runErr
            /\ avars' = avars
            /\ rpc' = "scan"]_vars

\* C23 witness: an empty frame and a notification were skipped in silence
\* and the request that came after them got the only response.
C23_Witness ==
    /\ rpc = "scan"
    /\ Len(input) = 3
    /\ input[1].kind = "empty"
    /\ input[2].kind = "request"
    /\ input[2].method = "notifications/initialized"
    /\ input[3].kind = "request" /\ input[3].method = "initialize"
    /\ outFrame = <<3>>
    /\ output[1].result # Absent

\* the JSON type run_command's input schema gives each parameter
RunCommandSchema ==
    [command |-> "string", args |-> "array", cwd |-> "string",
     env |-> "object", timeout_seconds |-> "number"]

\* the arguments omit the required parameter or hold one of another type
BadArguments(a) ==
    \/ "command" \notin DOMAIN a
    \/ \E k \in DOMAIN a : a[k].type # RunCommandSchema[k]

\* C24: a run_command call whose arguments omit the required parameter or
\* hold a parameter, required or optional, of the wrong type makes the
\* handler return an error, without the command being run.
C24_BadArgumentsAreHandlerErrors ==
    (hparams # NoRunCommand /\ BadArguments(hparams.args))
        => (hparams.err # "nil" /\ spc = "idle")

\* the names in a listing, and the listing of an answer to tools/list
ListedNames(listing) == {listing[i].name : i \in DOMAIN listing}

IsListing(i) ==
    /\ input[outFrame[i]].kind = "request"
    /\ input[outFrame[i]].method = "tools/list"

\* C25: whatever was registered, and however often a name was registered
\* again, the registry holds each tool under its own name and every answer
\* to tools/list is a result whose entries have distinct names, the names
\* being exactly the registered ones.
C25_ListingHasOneEntryPerName ==
    /\ \A n \in DOMAIN tools : tools[n].Name = n
    /\ \A i \in DOMAIN output :
          IsListing(i)
            => /\ output[i].result # Absent
               /\ Cardinality(ListedNames(output[i].result.tools))
                     = Len(output[i].result.tools)
               /\ ListedNames(output[i].result.tools) = DOMAIN tools

\* C25 witness: two names are registered, one of them with the definition
\* that replaced its first registration, and a listing of two entries was
\* sent.
C25_Witness ==
    /\ DOMAIN tools = {"get_shell_info", "cancel_command"}
    /\ tools["get_shell_info"].Handler = "handleCancelCommand"
    /\ Len(output) > 0
    /\ IsListing(1)
    /\ Len(output[1].result.tools) = 2

\* the scan that finds the input at its end: Run returns without a new frame
EndOfInput == rpc = "scan" /\ rpc' = "returned" /\ input' = input

\* C26: when the scan meets the end of the input, Run returns nil, writing
\* nothing more; every frame read has been through the loop body and each
\* one that expects a response has it.
C26_EndOfInputReturnsNil ==
    [][EndOfInput
         => /\ runErr' = "nil"
            /\ output' = output
            /\ \A k \in 1..Len(input) :
                  ExpectsResponse(input[k])
                     => \E i \in DOMAIN outFrame : outFrame[i] = k]_vars

\* C26 witness: Run has returned nil at the end of an input of three frames
\* that all expected a response, and three responses are written.
C26_Witness ==
    /\ rpc = "returned" /\ runErr = "nil"
    /\ Len(input) = 3
    /\ \A k \in 1..3 : ExpectsResponse(input[k])
    /\ outFrame = <<1, 2, 3>>
    /\ input[3].kind = "request" /\ input[3].method = "tools/call"

\* Run has returned an error
ReturnedError == rpc = "returned" /\ runErr # "nil"

\* the scan fails on a frame over the size limit
ScansTooLong ==
    rpc = "scan" /\ input' # input /\ input'[Len(input')].kind = "toolong"

\* C27, as claimed: Run returns an error only on a frame over the size
\* limit, the last frame read, for which it has written no response.
C27_OnlyInputFailureIsFatal ==
    ReturnedError
        => /\ Len(input) > 0
           /\ LastFrame.kind = "toolong"
           /\ \A i \in DOMAIN outFrame : outFrame[i] # Len(input)

\* C27, amended: a frame over the size limit makes Run return an error at
\* once, with no response for it; once Run has returned no frame is read
\* and nothing is written; and Run returns an error only so or, its context
\* being cancelled, with the context's error.
C27_TooLongOrCancelIsFatal ==
    [][/\ ScansTooLong
            => /\ rpc' = "returned"
               /\ runErr' \notin {"nil", "none"}
               /\ output' = output /\ outFrame' = outFrame
               /\ invoked' = invoked
       /\ rpc = "returned"
            => (input' = input /\ output' = output /\ invoked' = invoked)
       /\ (rpc # "returned" /\ rpc' = "returned" /\ runErr' # "nil")
            => \/ ScansTooLong
               \/ runCtxDone /\ runErr' = "context canceled"]_vars

\* C27 witness: after an answered request, a frame over the limit ended Run
\* with the scanner's error; two frames were read and one response written.
C27_Witness ==
    /\ rpc = "returned"
    /\ runErr = "token too long"
    /\ Len(input) = 2
    /\ input[1].kind = "request" /\ input[1].method = "tools/list"
    /\ input[2].kind = "toolong"
    /\ outFrame = <<1>>

\* the subprocess left no exit status of its own: it was never started, or
\* it was killed when the deadline passed
NoExitStatus == sproc = "none" \/ killedOn = "deadline"

\* the texts RunSync puts into Stderr for an error of cmd.Run()
IsErrorText(str) ==
    str \in {Truncate(TimedOutText), Truncate(StartErrText),
             Truncate(CanceledText)}

\* C28: a RunSync that has returned after a start failure or after the kill
\* of its subprocess at the deadline reports exit code -1 and an error text
\* in Stderr.
C28_NoExitStatusIsReported ==
    (spc = "returned" /\ NoExitStatus)
        => /\ syncResult.ExitCode = -1
           /\ IsErrorText(syncResult.Stderr)

\* RunAsync has returned the id with a nil error
Spawned(id) ==
    \E j \in DOMAIN results :
        results[j].op = "spawn" /\ results[j].ret /\ results[j].id = id

\* the step is a GetStatus that does not find the id it is asked for
StatusNotFound ==
    /\ Len(results') = Len(results) + 1
    /\ results'[Len(results')].op = "status"
    /\ ~results'[Len(results')].found

\* C29: no step takes a record out of the table or puts it under another
\* id, and no GetStatus fails to find an id that RunAsync has returned.
C29_RecordsAreNeverDeleted ==
    [][/\ Stored \subseteq DOMAIN asyncCommands'
       /\ \A id \in Stored : asyncCommands'[id].ID = id
       /\ StatusNotFound => ~Spawned(results'[Len(results')].id)]_vars

\* C29 witness: a task was spawned, ended and had its status written by its
\* watcher, a cancel of it was then refused, and a status call after that
\* still found its record.
C29_Witness ==
    /\ Len(results) = 3
    /\ results[1].op = "spawn" /\ results[1].ret
    /\ results[2].op = "cancel" /\ ~results[2].ret
    /\ results[2].id = results[1].id
    /\ results[3].op = "status" /\ results[3].found
    /\ results[3].id = results[1].id
    /\ results[3].snap.status \in {"completed", "failed"}
    /\ wpc[results[1].id] = "done"

IsInitialize(f) == f.kind = "request" /\ f.method = "initialize"

\* C30: the loop body, run on an initialize request, appends one response
\* with the request's id, no error, and a result of protocol version
\* 2024-11-05, the tools capability and the server's name and version,
\* whatever came before; it leaves the registry, the handler log, the tasks
\* and Run's context and error alone.
C30_InitializeIsStatic ==
    [][(BodyStep /\ IsInitialize(LastFrame))
         => /\ Len(output') = Len(output) + 1
            /\ SubSeq(output', 1, Len(output)) = output
            /\ output'[Len(output')].id = LastFrame.id
            /\ output'[Len(output')].error = Absent
            /\ output'[Len(output')].result # Absent
            /\ output'[Len(output')].result.protocolVersion = "2024-11-05"
            /\ "tools" \in DOMAIN output'[Len(output')].result.capabilities
            /\ output'[Len(output')].result.serverInfo
                  = [name |-> ServerName, version |-> ServerVersion]
            /\ tools' = tools
            /\ invoked' = invoked
            /\ runCtxDone' = runCtxDone
            /\ runErr' = runErr
            /\ avars' = avars]_vars

\* C30 witness: initialize was answered twice, first among the frames and
\* again after a tool call, each time with the id of its request.
C30_Witness ==
    /\ rpc = "scan"
    /\ Len(input) = 3
    /\ IsInitialize(input[1]) /\ input[1].id = NullId
    /\ IsCall(input[2])
    /\ IsInitialize(input[3]) /\ input[3].id # NullId
    /\ outFrame = <<1, 2, 3>>
    /\ output[1].id = NullId /\ output[3].id = input[3].id
    /\ output[1].result = output[3].result

\* ------------------------------------------------------------ C31 .. C38
\* the value is of the type the accessor is for
RightType(fn, v) ==
    CASE fn = "GetStringParam" -> v.type = "string"
      [] fn = "GetIntParam" -> v.type = "number" /\ v.num % 2 = 0
      [] fn = "GetBoolParam" -> v.type = "bool"
      [] fn = "GetStringArrayParam" ->
             /\ v.type = "array"
             /\ \A i \in DOMAIN v.items : v.items[i].type = "string"
      [] fn = "GetMapParam" ->
             /\ v.type = "object"
             /\ \A k \in DOMAIN v.entries : v.entries[k].type = "string"

\* the value of the accessor's type that v holds
ValueOf(fn, v) ==
    CASE fn = "GetStringParam" -> v.val
      [] fn = "GetIntParam" -> v.num \div 2
      [] fn = "GetBoolParam" -> v.bool
      [] fn = "GetStringArrayParam" -> [i \in DOMAIN v.items |-> v.items[i].val]
      [] fn = "GetMapParam" -> [k \in DOMAIN v.entries |-> v.entries[k].val]

\* what the accessor returns for an absent optional key
ZeroOrDefault(call) ==
    CASE call.fn = "GetStringParam" -> ""
      [] call.fn = "GetIntParam" -> call.def
      [] call.fn = "GetBoolParam" -> call.def = 1
      [] OTHER -> <<>>

\* C31: an accessor returns an error for an absent required key, the zero
\* value or the default with no error for an absent optional key, an error
\* for a present value of the wrong type, and the value itself, with no
\* error, for a present value of the right type.
C31_AccessorsCheckPresenceAndType ==
    pcall.fn \notin {"none", "ValidateCommand"}
      => IF "p" \notin DOMAIN pcall.args
         THEN IF pcall.required
              THEN pcall.ret.err # "nil"
              ELSE pcall.ret.err = "nil" /\ pcall.ret.val = ZeroOrDefault(pcall)
         ELSE IF RightType(pcall.fn, pcall.args["p"])
              THEN /\ pcall.ret.err = "nil"
                   /\ pcall.ret.val = ValueOf(pcall.fn, pcall.args["p"])
              ELSE pcall.ret.err # "nil"

\* the line holds the pattern at some position
Occurs(pattern, line) ==
    \E k \in 0..Len(line) :
        /\ k + Len(pattern) <= Len(line)
        /\ \A j \in 1..Len(pattern) : line[k + j] = pattern[j]

StartsWith(word, entry) ==
    /\ Len(entry) <= Len(word)
    /\ \A j \in 1..Len(entry) : word[j] = entry[j]

\* C32: ValidateCommand returns an error exactly for an empty command, for
\* a command whose line, the command joined with its arguments, holds a
\* denied pattern, whatever the allowed list says, and, the allowed list not
\* being empty, for a command that starts with none of its entries.
C32_ValidateCommandDecides ==
    pcall.fn = "ValidateCommand"
      => LET a == pcall.args
             rejected ==
                 \/ a.command = <<>>
                 \/ \E i \in DOMAIN a.denied :
                        Occurs(a.denied[i], FullCmd(a.command, a.args))
                 \/ /\ a.allowed # <<>>
                    /\ \A i \in DOMAIN a.allowed :
                          ~StartsWith(a.command, a.allowed[i])
         IN (pcall.ret.err # "nil") <=> rejected

\* C32 witness: a command on the allowed list was refused, for a denied
\* pattern that its arguments complete.
C32_Witness ==
    /\ pcall.fn = "ValidateCommand"
    /\ pcall.args.allowed = <<<<"r", "m">>, <<"l", "s">>>>
    /\ pcall.args.denied = DeniedCommands
    /\ pcall.args.command = <<"r", "m">>
    /\ pcall.args.args = <<<<"-", "r", "f">>, <<"/">>>>
    /\ pcall.ret.err = "command denied: command matches denied pattern"

\* C33: a status snapshot of a task that has not ended carries the time
\* elapsed since its start, which is at most the task's present age, and
\* the snapshot of an ended task carries end time minus start time.
C33_SnapshotReportsDuration ==
    \A i \in DOMAIN results :
        (results[i].op = "status" /\ results[i].found)
          => LET t == asyncCommands[results[i].id]
                 r == results[i].snap
             IN IF r.dur_key = "duration_ms"
                THEN r.dur_val = t.EndTime - t.StartTime
                ELSE /\ r.dur_key = "elapsed_ms"
                     /\ r.dur_val >= 0
                     /\ r.dur_val <= now - t.StartTime

NotACall(f) ==
    f.kind = "request" /\ f.method = "tools/call" /\ f.params.shape # "call"

\* the params are missing or fail to decode
FailsToDecode(f) == NotACall(f) /\ f.params.shape \in {"absent", "undecodable"}

\* C36: the loop body, run on a tools/call whose params are not
\* {name, arguments}, writes one response, the protocol error -32602 with
\* the request's id and no result, and invokes no handler; when the params
\* are missing or fail to decode the error reads "Invalid params".
C36_BadParamsAreInvalidParams ==
    [][(BodyStep /\ NotACall(LastFrame))
         => /\ Len(output') = Len(output) + 1
            /\ SubSeq(output', 1, Len(output)) = output
            /\ output'[Len(output')].jsonrpc = "2.0"
            /\ output'[Len(output')].id = LastFrame.id
            /\ output'[Len(output')].result = Absent
            /\ output'[Len(output')].error # Absent
            /\ output'[Len(output')].error.code = -32602
            /\ FailsToDecode(LastFrame)
                 => output'[Len(output')].error.message = "Invalid params"
            /\ invoked' = invoked
            /\ rpc' = "scan"]_vars

\* C36 witness: a tools/call without params and one with params of another
\* shape were each answered with "Invalid params", no handler being invoked.
C36_Witness ==
    /\ rpc = "scan"
    /\ Len(input) = 2
    /\ NotACall(input[1]) /\ input[1].params.shape = "absent"
    /\ NotACall(input[2]) /\ input[2].params.shape = "undecodable"
    /\ outFrame = <<1, 2>>
    /\ \A i \in 1..2 : /\ output[i].error.code = -32602
                        /\ output[i].error.message = "Invalid params"
                        /\ output[i].id = input[i].id
    /\ invoked = <<>>

\* the name ends with the text of a denied pattern
MatchesDenied(n) ==
    \E i \in DOMAIN DeniedEnvPatterns :
        LET x == DeniedEnvPatterns[i]
            d == Len(n) - Len(x)
        IN d >= 0 /\ \A j \in 1..Len(x) : n[d + j] = x[j]

\* the name starts with an allowed prefix
MatchesAllowed(n) ==
    \E i \in DOMAIN AllowedEnvPrefixes : StartsWith(n, AllowedEnvPrefixes[i])

\* call k of the log went through: its handler returned a result
Done(k, op) ==
    /\ elog[k].op = op
    /\ "name" \in DOMAIN elog[k].args
    /\ elog[k].ret.err = "nil"

NameOf(k) == elog[k].args.name.val

\* set_env(n, v) was call i, and no set_env or unset_env of n came between
\* call i and call j
SetBefore(i, j, n) ==
    /\ i < j
    /\ Done(i, "set_env") /\ elog[i].ret.set /\ NameOf(i) = n
    /\ \A k \in (i + 1)..(j - 1) :
           ~(/\ Done(k, "set_env") \/ Done(k, "unset_env")
             /\ NameOf(k) = n)

\* C37: get_env(n) of an allowed name that matches no denied pattern returns
\* the value of the last set_env(n, v), with exists, as long as no
\* unset_env(n) came after it, whatever the process environment holds for n;
\* unset_env(n) reports unset exactly when such a set_env is in force, n is
\* in the session after a set_env(n, v) and out of it after an unset_env(n),
\* until the next of the two.
C37_SessionStoreShadows ==
    /\ \A j \in DOMAIN elog : \A i \in DOMAIN elog :
          /\ (/\ Done(j, "get_env")
              /\ MatchesAllowed(NameOf(j)) /\ ~MatchesDenied(NameOf(j))
              /\ SetBefore(i, j, NameOf(j)))
               => /\ elog[j].ret.value = elog[i].args.value.val
                  /\ elog[j].ret.exists
                  /\ ~elog[j].ret.filtered
    /\ \A j \in DOMAIN elog :
          Done(j, "unset_env")
            => (elog[j].ret.unset
                  <=> \E i \in DOMAIN elog : SetBefore(i, j, NameOf(j)))
    /\ \A j \in DOMAIN elog :
          (/\ Done(j, "unset_env")
           /\ \A k \in (j + 1)..Len(elog) :
                  ~(Done(k, "set_env") /\ NameOf(k) = NameOf(j)))
            => NameOf(j) \notin DOMAIN sessionEnv
    /\ \A i \in DOMAIN elog :
          (Done(i, "set_env") /\ elog[i].ret.set
              /\ SetBefore(i, Len(elog) + 1, NameOf(i)))
            => /\ NameOf(i) \in DOMAIN sessionEnv
               /\ sessionEnv[NameOf(i)] = elog[i].args.value.val

\* C37 witness: HOME, which the process environment holds, was set in the
\* session, read back with the session's value, and unset.
C37_Witness ==
    /\ Len(elog) = 3
    /\ Done(1, "set_env") /\ elog[1].ret.set
    /\ NameOf(1) = <<"H","O","M","E">>
    /\ Done(2, "get_env") /\ NameOf(2) = NameOf(1)
    /\ elog[2].ret.value = "v" /\ elog[2].ret.exists
    /\ Done(3, "unset_env") /\ NameOf(3) = NameOf(1)
    /\ elog[3].ret.unset
    /\ sessionEnv = <<>>

\* C38: get_env of a name that matches a denied pattern returns an empty
\* value marked filtered, and no list_env result has an entry with such a
\* name.
C38_SensitiveNamesAreHidden ==
    \A j \in DOMAIN elog :
        /\ (Done(j, "get_env") /\ MatchesDenied(NameOf(j)))
             => /\ elog[j].ret.value = ""
                /\ elog[j].ret.filtered
                /\ ~elog[j].ret.exists
        /\ (elog[j].op = "list_env")
             => \A i \in DOMAIN elog[j].ret.variables :
                    ~MatchesDenied(elog[j].ret.variables[i].name)

====
